---------------------------- MODULE Spec2Model ----------------------------
(***************************************************************************)
(* A model of the TWAMM order pool (stylus/src/order_execution.rs) and of  *)
(* the engine routine it calls.                                            *)
(*                                                                         *)
(* U256 is modelled as an unsigned integer with the largest value UMax:    *)
(* every checked operation of the source fails exactly when its            *)
(* mathematical result exceeds UMax, as checked_add / checked_mul /        *)
(* checked_sub / checked_div do for 2^256 - 1.  The extreme inputs of the  *)
(* model are written relative to UMax, so each overflow path of the code   *)
(* is reached at any width.                                                *)
(***************************************************************************)
EXTENDS Integers, Sequences, FiniteSets

\* ------------------------------------------------------------------ bounds

\* The largest value of the modelled unsigned integer type: 2^30 - 1, where
\* the source's U256 has 2^256 - 1.
UMax == 1073741823

\* Decimal precision of the engine's fixed-point scale (18 in the source's
\* callers; reduced with the integer width so that the unit fits the type).
Precision == 1

\* The most orders the pool holds at once: a creation is not attempted on a
\* pool that already holds this many.
MaxOrders == 2

\* The largest value of next_order_id at which a creation is attempted.
MaxOrderId == 2

\* The most catch-ups that change the pool in one behaviour.
MaxExecutes == 2

\* ------------------------------------------------------------------ inputs

Addresses == {"alice", "bob"}

\* Owners of created orders; the other address only ever acts as a caller.
Owners == {"alice"}

\* (direction, sell_amount, duration_blocks, current_block) arguments of a
\* creation: a zero amount and a zero duration (both rejected), the order
\* of the decay scenario of the specification, a one-block order selling
\* the other token, a one-block order of the largest amount, whose rate is
\* the largest rate, and an order created at the largest block height.
OrderRequests ==
    { <<"SellToken0", 0, 100, 1000>>,
      <<"SellToken1", 100000, 0, 1000>>,
      <<"SellToken0", 100000, 100, 1000>>,
      <<"SellToken1", 100000, 1, 1000>>,
      <<"SellToken0", UMax, 1, 1000>>,
      <<"SellToken1", 100000, 100, UMax>> }

\* current_block arguments of a catch-up: the creation block and the
\* catch-up block of the decay scenario, and the largest block height.
Blocks == {1000, 1050, UMax}

\* interval arguments of set_order_block_interval: zero (rejected) and the
\* distance between the two catch-up blocks of the decay scenario.
Intervals == {0, 50}

\* (current_reserve_0, current_reserve_1) arguments of a catch-up.
ReservePairs == {<<5000, 5000>>, <<100, 10000000>>}

\* ------------------------------------------------------- checked arithmetic

\* The None of an Option<U256>.
NONE == 0 - 1

NoErr == ""

Min(a, b) == IF a < b THEN a ELSE b

Max(a, b) == IF a > b THEN a ELSE b

\* U256::checked_add: None on overflow.
CheckedAdd(a, b) == IF a = NONE \/ b = NONE THEN NONE
                    ELSE IF a > UMax - b THEN NONE ELSE a + b

\* U256::checked_sub: None on underflow.
CheckedSub(a, b) == IF a = NONE \/ b = NONE THEN NONE
                    ELSE IF b > a THEN NONE ELSE a - b

\* U256::checked_mul: None on overflow (decided by division, so that the
\* product itself is never formed when it does not fit).
CheckedMul(a, b) == IF a = NONE \/ b = NONE THEN NONE
                    ELSE IF a = 0 \/ b = 0 THEN 0
                    ELSE IF a > UMax \div b THEN NONE ELSE a * b

\* U256::checked_div: None on a zero divisor.
CheckedDiv(a, b) == IF a = NONE \/ b = NONE THEN NONE
                    ELSE IF b = 0 THEN NONE ELSE a \div b

\* Option::unwrap_or.
UnwrapOr(x, d) == IF x = NONE THEN d ELSE x

\* ------------------------------------------------------------------ engine

\* The fixed-point unit, U256::from(10u128.pow(precision)).
One == 10^Precision

RECURSIVE SqrtLoop(_, _, _)
\* while y < z { z = y; y = (x / y + y) / 2 }; NONE stands for the panic of
\* a division by zero.
SqrtLoop(x, z, y) ==
    IF y < z
    THEN IF y = 0 THEN NONE ELSE SqrtLoop(x, y, (x \div y + y) \div 2)
    ELSE z

\* TWAMMath::sqrt: integer square root by Newton's method.
sqrt(x) ==
    IF x = 0 THEN 0
    ELSE IF x = 1 THEN 1
    ELSE SqrtLoop(x, x, ((x + 1) % (UMax + 1)) \div 2)

EngineErr(e) == [err |-> e, new_in |-> 0, new_out |-> 0]

\* The unidirectional closed form of the engine (two-branch approximation),
\* with checked arithmetic throughout.
closed_form_unidirectional(reserve_in, reserve_out, sell_rate, blocks) ==
    LET k == CheckedMul(reserve_in, reserve_out)
        total_sell == CheckedMul(sell_rate, blocks)
    IN  IF k = NONE \/ total_sell = NONE THEN EngineErr("Overflow")
        ELSE LET sqrt_k == sqrt(k) IN
        IF sqrt_k = NONE THEN EngineErr("DivisionByZero")
        ELSE IF sqrt_k = 0 THEN EngineErr("InvalidInput")
        ELSE LET scaled == CheckedMul(total_sell, One) IN
        IF scaled = NONE THEN EngineErr("Overflow")
        ELSE LET decay_factor == scaled \div sqrt_k
                 new_in ==
                     IF decay_factor < One
                     THEN CheckedAdd(reserve_in,
                              CheckedDiv(CheckedMul(total_sell, reserve_in),
                                         CheckedAdd(reserve_in, sqrt_k)))
                     ELSE CheckedAdd(reserve_in,
                              CheckedDiv(CheckedMul(total_sell, 8), 10))
             IN  IF new_in = NONE THEN EngineErr("Overflow")
                 ELSE IF new_in = 0 THEN EngineErr("DivisionByZero")
                 ELSE [err |-> NoErr, new_in |-> new_in,
                       new_out |-> k \div new_in]

ClosedFormErr(e) ==
    [err |-> e, new_reserve_0 |-> 0, new_reserve_1 |-> 0,
     amount_0_received |-> 0, amount_1_received |-> 0]

\* Token0 is sold into the pool: token1 leaves it and is what the sellers of
\* token0 receive.
ClosedFormZeroForOne(u, reserve_1) ==
    IF u.err # NoErr THEN ClosedFormErr(u.err)
    ELSE [err |-> NoErr, new_reserve_0 |-> u.new_in,
          new_reserve_1 |-> u.new_out, amount_0_received |-> 0,
          amount_1_received |-> UnwrapOr(CheckedSub(reserve_1, u.new_out), 0)]

ClosedFormOneForZero(u, reserve_0) ==
    IF u.err # NoErr THEN ClosedFormErr(u.err)
    ELSE [err |-> NoErr, new_reserve_0 |-> u.new_out,
          new_reserve_1 |-> u.new_in,
          amount_0_received |-> UnwrapOr(CheckedSub(reserve_0, u.new_out), 0),
          amount_1_received |-> 0]

\* Bidirectional netting: one side's volume is converted at the spot price,
\* the smaller side is subtracted and the unidirectional routine runs on the
\* net volume; value-equal sides leave the reserves unchanged.
closed_form_bidirectional(rate_0, rate_1, blocks, reserve_0, reserve_1) ==
    LET total_sell_0 == CheckedMul(rate_0, blocks)
        total_sell_1 == CheckedMul(rate_1, blocks)
        scaled_1 == CheckedMul(reserve_1, One)
    IN  IF total_sell_0 = NONE \/ total_sell_1 = NONE \/ scaled_1 = NONE
        THEN ClosedFormErr("Overflow")
        ELSE IF reserve_0 = 0 THEN ClosedFormErr("DivisionByZero")
        ELSE LET price_0_in_1 == scaled_1 \div reserve_0
                 value_0 == CheckedMul(total_sell_0, price_0_in_1)
        IN  IF value_0 = NONE THEN ClosedFormErr("Overflow")
        ELSE LET sell_0_value_in_1 == value_0 \div One IN
        IF sell_0_value_in_1 > total_sell_1
        THEN LET back == CheckedMul(total_sell_1, One) IN
             IF back = NONE THEN ClosedFormErr("Overflow")
             ELSE IF price_0_in_1 = 0 THEN ClosedFormErr("DivisionByZero")
             ELSE LET net == CheckedSub(total_sell_0, back \div price_0_in_1)
                  IN  IF net = NONE THEN ClosedFormErr("Overflow")
                      ELSE ClosedFormZeroForOne(
                               closed_form_unidirectional(reserve_0, reserve_1,
                                   net \div blocks, blocks), reserve_1)
        ELSE IF total_sell_1 > sell_0_value_in_1
        THEN ClosedFormOneForZero(
                 closed_form_unidirectional(reserve_1, reserve_0,
                     (total_sell_1 - sell_0_value_in_1) \div blocks, blocks),
                 reserve_0)
        ELSE [err |-> NoErr, new_reserve_0 |-> reserve_0,
              new_reserve_1 |-> reserve_1, amount_0_received |-> 0,
              amount_1_received |-> 0]

\* TWAMMath::execute_virtual_orders_closed_form: the engine call of a
\* catch-up.  It dispatches on which rates are non-zero and returns the new
\* reserves and the amounts received per direction, or a MathError.
execute_virtual_orders_closed_form(rate_0, rate_1, blocks, reserve_0, reserve_1) ==
    IF rate_0 = 0 /\ rate_1 = 0
    THEN [err |-> NoErr, new_reserve_0 |-> reserve_0,
          new_reserve_1 |-> reserve_1, amount_0_received |-> 0,
          amount_1_received |-> 0]
    ELSE IF rate_1 = 0
    THEN ClosedFormZeroForOne(
             closed_form_unidirectional(reserve_0, reserve_1, rate_0, blocks),
             reserve_1)
    ELSE IF rate_0 = 0
    THEN ClosedFormOneForZero(
             closed_form_unidirectional(reserve_1, reserve_0, rate_1, blocks),
             reserve_0)
    ELSE closed_form_bidirectional(rate_0, rate_1, blocks, reserve_0, reserve_1)

\* The map_err of execute_virtual_orders: MathError to the call's message.
MathErrorMessage(e) ==
    CASE e = "Overflow" -> "Math overflow in virtual execution"
      [] e = "DivisionByZero" -> "Division by zero in virtual execution"
      [] e = "InvalidInput" -> "Invalid input for virtual execution"
      [] OTHER -> "Virtual execution computation failed"

\* ---------------------------------------------------- OrderManager (src)

\* A minimum-duration test that never fires.
DurationNeverTooShort(duration_blocks) == FALSE

\* The minimum-duration test of validate_order_params.
DurationTooShort(duration_blocks) == duration_blocks < 10

\* OrderManager::validate_order_params: the error, NoErr when the
\* parameters are accepted.
validate_order_params(sell_amount, duration_blocks, current_reserve) ==
    IF sell_amount = 0 THEN "Sell amount cannot be zero"
    ELSE IF duration_blocks = 0 THEN "Duration must be positive"
    ELSE IF DurationTooShort(duration_blocks)
    THEN "Duration too short (minimum 10 blocks)"
    ELSE IF duration_blocks > 1000000
    THEN "Duration too long (maximum 1M blocks)"
    ELSE IF sell_amount > UnwrapOr(CheckedDiv(current_reserve, 10), 0)
            /\ current_reserve > 0
    THEN "Sell amount too large relative to reserves"
    ELSE NoErr

\* ------------------------------------------------------- TWAMMath (src)

\* U256 + U256: the sum modulo 2^width; NONE when an operand is the value of
\* a computation that panicked.
WrappingAdd(a, b) == IF a = NONE \/ b = NONE THEN NONE
                     ELSE IF a > UMax - b THEN a - (UMax - b) - 1 ELSE a + b

\* U256 - U256: the difference modulo 2^width.
WrappingSub(a, b) == IF a = NONE \/ b = NONE THEN NONE
                     ELSE IF a >= b THEN a - b ELSE UMax - (b - a) + 1

RECURSIVE MulMod(_, _)
\* a * b modulo 2^width by doubling a and halving b, so that no
\* intermediate value leaves the range of the model's integers.
MulMod(a, b) ==
    IF b = 0 THEN 0
    ELSE WrappingAdd(MulMod(WrappingAdd(a, a), b \div 2),
                     IF b % 2 = 1 THEN a ELSE 0)

\* U256 * U256: the product modulo 2^width.
WrappingMul(a, b) == IF a = NONE \/ b = NONE THEN NONE
                     ELSE IF b = 0 \/ a <= UMax \div b THEN a * b
                     ELSE MulMod(a, b)

\* U256 / U256: panics on a zero divisor.
PanickingDiv(a, b) == IF a = NONE \/ b = NONE \/ b = 0 THEN NONE
                      ELSE a \div b

\* U256::from(10u128.pow(precision)).
PowerOfTen(precision) == 10^precision

\* The Result of a TWAMMath state computation: status is "ok", "err" (an
\* Err return) or "panic".
StateOk(x, y) == [status |-> "ok", x |-> x, y |-> y]

StateErr == [status |-> "err", x |-> 0, y |-> 0]

StatePanic == [status |-> "panic", x |-> 0, y |-> 0]

\* calculate_unidirectional_state from new_reserve_in on: the division by
\* it and the order of the returned pair.
UnidirectionalReturn(k, new_reserve_in, is_x_to_y) ==
    IF PanickingDiv(k, new_reserve_in) = NONE THEN StatePanic
    ELSE IF is_x_to_y
    THEN StateOk(new_reserve_in, PanickingDiv(k, new_reserve_in))
    ELSE StateOk(PanickingDiv(k, new_reserve_in), new_reserve_in)

\* calculate_unidirectional_state from sqrt_k on: the two branches of the
\* decay test.
UnidirectionalBranch(reserve_in, k, one, total_sell_amount, sqrt_k, is_x_to_y) ==
    IF sqrt_k = NONE THEN StatePanic
    ELSE IF sqrt_k = 0 THEN StateErr
    ELSE IF PanickingDiv(WrappingMul(total_sell_amount, one), sqrt_k) < one
    THEN UnidirectionalReturn(k,
             WrappingAdd(reserve_in,
                 PanickingDiv(WrappingMul(total_sell_amount, reserve_in),
                              WrappingAdd(reserve_in, sqrt_k))),
             is_x_to_y)
    ELSE UnidirectionalReturn(k,
             WrappingAdd(reserve_in,
                 PanickingDiv(WrappingMul(total_sell_amount, 8), 10)),
             is_x_to_y)

\* TWAMMath::calculate_unidirectional_state.
calculate_unidirectional_state(reserve_in, reserve_out, sell_rate, time_blocks, precision, is_x_to_y) ==
    UnidirectionalBranch(reserve_in, WrappingMul(reserve_in, reserve_out),
                         PowerOfTen(precision),
                         WrappingMul(sell_rate, time_blocks),
                         sqrt(WrappingMul(reserve_in, reserve_out)),
                         is_x_to_y)

\* calculate_bidirectional_state from the value of the token-x volume on.
BidirectionalNet(initial_x, initial_y, time_blocks, precision, one, total_sell_x, total_sell_y, price_x_in_y, sell_x_value_in_y) ==
    IF price_x_in_y = NONE \/ sell_x_value_in_y = NONE THEN StatePanic
    ELSE IF sell_x_value_in_y > total_sell_y
    THEN IF price_x_in_y = 0 \/ time_blocks = 0 THEN StatePanic
         ELSE calculate_unidirectional_state(
                  initial_x, initial_y,
                  PanickingDiv(
                      WrappingSub(total_sell_x,
                          PanickingDiv(WrappingMul(total_sell_y, one),
                                       price_x_in_y)),
                      time_blocks),
                  time_blocks, precision, TRUE)
    ELSE IF total_sell_y > sell_x_value_in_y
    THEN IF time_blocks = 0 THEN StatePanic
         ELSE calculate_unidirectional_state(
                  initial_y, initial_x,
                  PanickingDiv(WrappingSub(total_sell_y, sell_x_value_in_y),
                               time_blocks),
                  time_blocks, precision, FALSE)
    ELSE StateOk(initial_x, initial_y)

\* calculate_bidirectional_state from the spot price on.
BidirectionalValue(initial_x, initial_y, time_blocks, precision, one, total_sell_x, total_sell_y, price_x_in_y) ==
    BidirectionalNet(initial_x, initial_y, time_blocks, precision, one,
                     total_sell_x, total_sell_y, price_x_in_y,
                     PanickingDiv(WrappingMul(total_sell_x, price_x_in_y),
                                  one))

\* TWAMMath::calculate_bidirectional_state.
calculate_bidirectional_state(initial_x, initial_y, sell_rate_x, sell_rate_y, time_blocks, precision) ==
    BidirectionalValue(initial_x, initial_y, time_blocks, precision,
                       PowerOfTen(precision),
                       WrappingMul(sell_rate_x, time_blocks),
                       WrappingMul(sell_rate_y, time_blocks),
                       PanickingDiv(WrappingMul(initial_y,
                                                PowerOfTen(precision)),
                                    initial_x))

\* TWAMMath::calculate_virtual_amm_state.
calculate_virtual_amm_state(initial_x, initial_y, sell_rate_x, sell_rate_y, time_blocks, precision) ==
    IF sell_rate_x = 0 /\ sell_rate_y = 0 THEN StateOk(initial_x, initial_y)
    ELSE IF sell_rate_x > 0 /\ sell_rate_y = 0
    THEN calculate_unidirectional_state(initial_x, initial_y, sell_rate_x,
                                        time_blocks, precision, TRUE)
    ELSE IF sell_rate_y > 0 /\ sell_rate_x = 0
    THEN calculate_unidirectional_state(initial_y, initial_x, sell_rate_y,
                                        time_blocks, precision, FALSE)
    ELSE calculate_bidirectional_state(initial_x, initial_y, sell_rate_x,
                                       sell_rate_y, time_blocks, precision)

\* The Result of a TWAMMath amount computation.
AmountOk(value) == [status |-> "ok", value |-> value]

AmountErr == [status |-> "err", value |-> 0]

AmountPanic == [status |-> "panic", value |-> 0]

\* The factor calculate_price_impact scales the shortfall by before it
\* divides by the expected amount.
ImpactScale(one) == WrappingMul(one, 100)

\* calculate_price_impact from amount_out and expected_out on.
PriceImpactFrom(one, amount_out, expected_out) ==
    IF amount_out = NONE \/ expected_out = NONE THEN AmountPanic
    ELSE IF expected_out <= amount_out THEN AmountOk(0)
    ELSE AmountOk(PanickingDiv(
             WrappingMul(WrappingSub(expected_out, amount_out),
                         ImpactScale(one)),
             expected_out))

\* TWAMMath::calculate_price_impact.
calculate_price_impact(trade_size, reserve_in, reserve_out, precision) ==
    IF reserve_in = 0 \/ reserve_out = 0 THEN AmountErr
    ELSE PriceImpactFrom(
             PowerOfTen(precision),
             WrappingSub(reserve_out,
                 PanickingDiv(WrappingMul(reserve_in, reserve_out),
                              WrappingAdd(reserve_in, trade_size))),
             PanickingDiv(WrappingMul(trade_size, reserve_out), reserve_in))

\* U256::saturating_sub.
SaturatingSub(a, b) == IF a >= b THEN a - b ELSE 0

\* The amount component of calculate_execution_quality.
AmountRatio(expected_amount, actual_amount) ==
    IF expected_amount > 0
    THEN PanickingDiv(WrappingMul(actual_amount, 50), expected_amount)
    ELSE 50

\* The impact component of calculate_execution_quality.
ImpactScore(price_impact_bps) ==
    IF price_impact_bps > 500
    THEN SaturatingSub(50, (price_impact_bps - 500) \div 100)
    ELSE 50

\* TWAMMath::calculate_execution_quality.
calculate_execution_quality(expected_amount, actual_amount, price_impact_bps, precision) ==
    WrappingAdd(AmountRatio(expected_amount, actual_amount),
                ImpactScore(price_impact_bps))

\* U256::from(10u128.pow(precision - 2)) of calculate_optimal_rate.  For
\* precision < 2 the u32 subtraction overflows: a build with overflow checks
\* panics (NONE); one without them wraps the exponent to 2^32 + precision
\* - 2 and the power, modulo 2^128, to 0.
OnePercent(precision, overflow_checks) ==
    IF precision >= 2 THEN 10^(precision - 2)
    ELSE IF overflow_checks THEN NONE ELSE 0

\* The number of iterations of the binary search of calculate_optimal_rate.
SearchIterations == 50

RECURSIVE RateSearch(_, _, _, _, _, _, _, _)
RECURSIVE RateSearchStep(_, _, _, _, _, _, _, _, _, _)
\* One iteration of the binary search from mid and its impact on: the
\* update of optimal_rate, low and high and the test that ends the loop.
RateSearchStep(low, high, optimal_rate, n, reserve_in, reserve_out, target_impact, precision, mid, mid_impact) ==
    IF mid_impact.status # "ok" THEN mid_impact
    ELSE IF mid_impact.value <= target_impact
    THEN IF high <= WrappingAdd(mid, 1) THEN AmountOk(mid)
         ELSE RateSearch(WrappingAdd(mid, 1), high, mid, n - 1, reserve_in,
                         reserve_out, target_impact, precision)
    ELSE IF WrappingSub(mid, 1) <= low THEN AmountOk(optimal_rate)
         ELSE RateSearch(low, WrappingSub(mid, 1), optimal_rate, n - 1,
                         reserve_in, reserve_out, target_impact, precision)

\* The binary search of calculate_optimal_rate with n iterations left.
RateSearch(low, high, optimal_rate, n, reserve_in, reserve_out, target_impact, precision) ==
    IF n = 0 THEN AmountOk(optimal_rate)
    ELSE RateSearchStep(low, high, optimal_rate, n, reserve_in, reserve_out,
                        target_impact, precision,
                        WrappingAdd(low, high) \div 2,
                        calculate_price_impact(WrappingAdd(low, high) \div 2,
                                               reserve_in, reserve_out,
                                               precision))

\* calculate_optimal_rate from the impact of the uniform rate and the
\* target on.
OptimalRateFrom(uniform_rate, reserve_in, reserve_out, precision, impact, target_impact) ==
    IF impact.status # "ok" THEN impact
    ELSE IF target_impact = NONE THEN AmountPanic
    ELSE IF impact.value <= target_impact THEN AmountOk(uniform_rate)
    ELSE RateSearch(1, uniform_rate, uniform_rate, SearchIterations,
                    reserve_in, reserve_out, target_impact, precision)

\* TWAMMath::calculate_optimal_rate; overflow_checks is whether the build
\* checks primitive integer overflow.
calculate_optimal_rate(total_amount, available_time, reserve_in, reserve_out, target_impact_bps, precision, overflow_checks) ==
    IF available_time = 0 THEN AmountErr
    ELSE OptimalRateFrom(
             total_amount \div available_time, reserve_in, reserve_out,
             precision,
             calculate_price_impact(total_amount \div available_time,
                                    reserve_in, reserve_out, precision),
             PanickingDiv(
                 WrappingMul(target_impact_bps,
                             OnePercent(precision, overflow_checks)),
                 100))

\* ------------------------------------------------- TWAMMCalculator (src)

\* The zero address.
ZeroAddress == "0x0"

\* The storage of a deployed TWAMMCalculator before initialize.
DefaultCalculator ==
    [owner |-> ZeroAddress, total_calculations |-> 0,
     total_volume_processed |-> 0, max_price_impact_bps |-> 0,
     precision_factor |-> 0, emergency_mode |-> FALSE]

\* TWAMMCalculator::initialize; the precision factor 10^18 is One here.
initialize(c, owner_addr) ==
    [c EXCEPT !.owner = owner_addr, !.max_price_impact_bps = 1000,
              !.precision_factor = One, !.emergency_mode = FALSE]

\* TWAMMCalculator::set_emergency_mode.
set_emergency_mode(c, enabled) == [c EXCEPT !.emergency_mode = enabled]

\* TWAMMCalculator::update_config.
update_config(c, max_price_impact_bps, precision_factor) ==
    IF max_price_impact_bps > 5000
    THEN [ok |-> FALSE, err |-> "Price impact too high", calculator |-> c]
    ELSE [ok |-> TRUE, err |-> NoErr,
          calculator |->
              [c EXCEPT !.max_price_impact_bps = max_price_impact_bps,
                        !.precision_factor = precision_factor]]

\* The Result of a calculator amount computation.
CalcOk(value) == [err |-> NoErr, value |-> value]

CalcErr(e) == [err |-> e, value |-> 0]

\* TWAMMCalculator::calculate_time_weighting_factor; NONE is the
\* MathOverflow every failing step returns.
calculate_time_weighting_factor(precision, amount, reserve) ==
    CheckedAdd(
        CheckedDiv(CheckedMul(precision, 8), 10),
        CheckedDiv(
            CheckedMul(CheckedDiv(CheckedMul(precision, 2), 10),
                       CheckedDiv(CheckedMul(amount, precision), reserve)),
            CheckedAdd(precision,
                       CheckedDiv(CheckedMul(amount, precision), reserve))))

\* calculate_twamm_out_given_in from amount_out on: the 0.3% fee.
FeeAdjusted(amount_out) ==
    IF CheckedMul(amount_out, 997) = NONE THEN CalcErr("MathOverflow")
    ELSE CalcOk(CheckedDiv(CheckedMul(amount_out, 997), 1000))

\* calculate_twamm_out_given_in from new_reserve_out on.
OutFromNewReserve(reserve_out, new_reserve_out) ==
    IF new_reserve_out = NONE THEN CalcErr("MathOverflow")
    ELSE IF CheckedSub(reserve_out, new_reserve_out) = NONE
    THEN CalcErr("InsufficientLiquidity")
    ELSE FeeAdjusted(CheckedSub(reserve_out, new_reserve_out))

\* TWAMMCalculator::calculate_twamm_out_given_in.
calculate_twamm_out_given_in(c, amount_in, reserve_in, reserve_out) ==
    IF amount_in = 0 THEN CalcOk(0)
    ELSE OutFromNewReserve(
             reserve_out,
             CheckedDiv(
                 CheckedMul(reserve_in, reserve_out),
                 CheckedAdd(
                     reserve_in,
                     CheckedDiv(
                         CheckedMul(amount_in,
                             calculate_time_weighting_factor(
                                 c.precision_factor, amount_in, reserve_in)),
                         c.precision_factor))))

\* The Result of a calculator trade computation.
TradeOk(amount_0, amount_1) ==
    [err |-> NoErr, amount_0 |-> amount_0, amount_1 |-> amount_1]

TradeErr(e) == [err |-> e, amount_0 |-> 0, amount_1 |-> 0]

\* calculate_unidirectional_trade from amount_out on.
UnidirectionalTradeFrom(total_sell_amount, out, zero_for_one) ==
    IF out.err # NoErr THEN TradeErr(out.err)
    ELSE IF zero_for_one THEN TradeOk(total_sell_amount, out.value)
    ELSE TradeOk(out.value, total_sell_amount)

\* TWAMMCalculator::calculate_unidirectional_trade.
calculate_unidirectional_trade(c, sell_rate, blocks_elapsed, reserve_0, reserve_1, zero_for_one) ==
    IF CheckedMul(sell_rate, blocks_elapsed) = NONE
    THEN TradeErr("MathOverflow")
    ELSE IF zero_for_one
    THEN UnidirectionalTradeFrom(
             sell_rate * blocks_elapsed,
             calculate_twamm_out_given_in(c, sell_rate * blocks_elapsed,
                                          reserve_0, reserve_1),
             TRUE)
    ELSE UnidirectionalTradeFrom(
             sell_rate * blocks_elapsed,
             calculate_twamm_out_given_in(c, sell_rate * blocks_elapsed,
                                          reserve_1, reserve_0),
             FALSE)

\* calculate_net_flows, net flow 0 -> 1, from net_sell_0 on.
NetFlowZeroForOne(c, net_sell_0, reserve_0, reserve_1) ==
    IF net_sell_0 = NONE THEN TradeErr("MathOverflow")
    ELSE UnidirectionalTradeFrom(
             net_sell_0,
             calculate_twamm_out_given_in(c, net_sell_0, reserve_0,
                                          reserve_1),
             TRUE)

\* calculate_net_flows from sell_0_value_in_1 on.
NetFlowsFrom(c, sell_1, reserve_0, reserve_1, price_0_in_1, sell_0_value_in_1) ==
    IF sell_0_value_in_1 = NONE THEN TradeErr("MathOverflow")
    ELSE IF sell_0_value_in_1 > sell_1
    THEN NetFlowZeroForOne(
             c,
             CheckedDiv(CheckedMul(sell_0_value_in_1 - sell_1,
                                   c.precision_factor),
                        price_0_in_1),
             reserve_0, reserve_1)
    ELSE IF sell_1 > sell_0_value_in_1
    THEN UnidirectionalTradeFrom(
             sell_1 - sell_0_value_in_1,
             calculate_twamm_out_given_in(c, sell_1 - sell_0_value_in_1,
                                          reserve_1, reserve_0),
             FALSE)
    ELSE TradeOk(0, 0)

\* calculate_net_flows from price_0_in_1 on.
NetFlowsFromPrice(c, sell_0, sell_1, reserve_0, reserve_1, price_0_in_1) ==
    NetFlowsFrom(c, sell_1, reserve_0, reserve_1, price_0_in_1,
                 CheckedDiv(CheckedMul(sell_0, price_0_in_1),
                            c.precision_factor))

\* TWAMMCalculator::calculate_net_flows.
calculate_net_flows(c, sell_0, sell_1, reserve_0, reserve_1) ==
    NetFlowsFromPrice(c, sell_0, sell_1, reserve_0, reserve_1,
                      CheckedDiv(CheckedMul(reserve_1, c.precision_factor),
                                 reserve_0))

\* TWAMMCalculator::calculate_bidirectional_trade.
calculate_bidirectional_trade(c, sell_rate_0, sell_rate_1, blocks_elapsed, reserve_0, reserve_1) ==
    IF CheckedMul(sell_rate_0, blocks_elapsed) = NONE
       \/ CheckedMul(sell_rate_1, blocks_elapsed) = NONE
    THEN TradeErr("MathOverflow")
    ELSE calculate_net_flows(c, sell_rate_0 * blocks_elapsed,
                             sell_rate_1 * blocks_elapsed,
                             reserve_0, reserve_1)

\* TWAMMCalculator::validate_inputs: the error, NoErr when they are valid.
validate_inputs(sell_rate_0, sell_rate_1, blocks_elapsed, reserve_0, reserve_1) ==
    IF blocks_elapsed = 0 THEN "InvalidInput"
    ELSE IF reserve_0 = 0 \/ reserve_1 = 0 THEN "InvalidReserves"
    ELSE IF sell_rate_0 > Max(reserve_0, reserve_1) \div 100
            \/ sell_rate_1 > Max(reserve_0, reserve_1) \div 100
    THEN "InvalidInput"
    ELSE NoErr

\* TWAMMCalculator::update_statistics.
update_statistics(c, amount_0, amount_1) ==
    [c EXCEPT
        !.total_calculations = WrappingAdd(c.total_calculations, 1),
        !.total_volume_processed =
            WrappingAdd(WrappingAdd(c.total_volume_processed, amount_0),
                        amount_1)]

\* The Result of calculate_virtual_trades and the storage it leaves: a
\* failing call is reverted.
VirtualTradesErr(e, c) ==
    [ok |-> FALSE, err |-> e, amount_0 |-> 0, amount_1 |-> 0,
     calculator |-> c]

\* A return that adds the number of earlier calculations to the amount of
\* token0.
VirtualTradesFromCounted(c, result) ==
    IF result.err # NoErr THEN VirtualTradesErr(result.err, c)
    ELSE [ok |-> TRUE, err |-> NoErr,
          amount_0 |-> result.amount_0 + c.total_calculations,
          amount_1 |-> result.amount_1,
          calculator |->
              update_statistics(c, result.amount_0, result.amount_1)]

\* calculate_virtual_trades from the result of the dispatch on.
VirtualTradesFrom(c, result) ==
    IF result.err # NoErr THEN VirtualTradesErr(result.err, c)
    ELSE [ok |-> TRUE, err |-> NoErr, amount_0 |-> result.amount_0,
          amount_1 |-> result.amount_1,
          calculator |->
              update_statistics(c, result.amount_0, result.amount_1)]

\* An emergency mode check that never fires.
EmergencyIgnored(c) == FALSE

\* The emergency mode check of calculate_virtual_trades.

Emergency(c) == c.emergency_mode

\* TWAMMCalculator::calculate_virtual_trades.
calculate_virtual_trades(c, sell_rate_0, sell_rate_1, blocks_elapsed, reserve_0, reserve_1) ==
    IF validate_inputs(sell_rate_0, sell_rate_1, blocks_elapsed, reserve_0,
                       reserve_1) # NoErr
    THEN VirtualTradesErr(
             validate_inputs(sell_rate_0, sell_rate_1, blocks_elapsed,
                             reserve_0, reserve_1), c)
    ELSE IF Emergency(c)
    THEN VirtualTradesErr("Contract in emergency mode", c)
    ELSE IF sell_rate_0 > 0 /\ sell_rate_1 = 0
    THEN VirtualTradesFrom(
             c, calculate_unidirectional_trade(c, sell_rate_0, blocks_elapsed,
                                               reserve_0, reserve_1, TRUE))
    ELSE IF sell_rate_1 > 0 /\ sell_rate_0 = 0
    THEN VirtualTradesFrom(
             c, calculate_unidirectional_trade(c, sell_rate_1, blocks_elapsed,
                                               reserve_0, reserve_1, FALSE))
    ELSE IF sell_rate_0 > 0 /\ sell_rate_1 > 0
    THEN VirtualTradesFrom(
             c, calculate_bidirectional_trade(c, sell_rate_0, sell_rate_1,
                                              blocks_elapsed, reserve_0,
                                              reserve_1))
    ELSE VirtualTradesFrom(c, TradeOk(0, 0))

\* calculate_price_impact of the calculator from amount_out and
\* expected_out on.
CalculatorImpactFrom(amount_out, expected_out) ==
    IF expected_out = NONE THEN CalcErr("MathOverflow")
    ELSE IF expected_out <= amount_out THEN CalcOk(0)
    ELSE IF CheckedMul(expected_out - amount_out, 10000) = NONE
    THEN CalcErr("MathOverflow")
    ELSE CalcOk(((expected_out - amount_out) * 10000) \div expected_out)

\* calculate_price_impact of the calculator from new_reserve_out on.
CalculatorImpactFromReserve(amount_in, reserve_in, reserve_out, new_reserve_out) ==
    IF new_reserve_out = NONE THEN CalcErr("MathOverflow")
    ELSE IF CheckedSub(reserve_out, new_reserve_out) = NONE
    THEN CalcErr("InsufficientLiquidity")
    ELSE CalculatorImpactFrom(
             reserve_out - new_reserve_out,
             CheckedDiv(CheckedMul(amount_in, reserve_out), reserve_in))

\* TWAMMCalculator::calculate_price_impact (the private method).
calculator_calculate_price_impact(amount_in, reserve_in, reserve_out) ==
    IF amount_in = 0 THEN CalcOk(0)
    ELSE CalculatorImpactFromReserve(
             amount_in, reserve_in, reserve_out,
             CheckedDiv(CheckedMul(reserve_in, reserve_out),
                        CheckedAdd(reserve_in, amount_in)))

\* The output ratio of the calculator's calculate_execution_quality.
OutputRatio(precision, expected_out, actual_out) ==
    IF expected_out > 0
    THEN UnwrapOr(CheckedDiv(UnwrapOr(CheckedMul(actual_out, precision), 0),
                             expected_out), 0)
    ELSE precision

\* The impact penalty of the calculator's calculate_execution_quality.
ImpactPenalty(price_impact_bps) ==
    IF price_impact_bps > 500
    THEN UnwrapOr(CheckedMul(UnwrapOr(CheckedSub(price_impact_bps, 500), 0),
                             2), 0)
    ELSE 0

\* The quality of the calculator's calculate_execution_quality before the
\* cap.
Quality(precision, output_ratio, impact_penalty) ==
    UnwrapOr(
        CheckedSub(
            UnwrapOr(CheckedDiv(UnwrapOr(CheckedMul(output_ratio, 100), 0),
                                precision), 0),
            UnwrapOr(CheckedDiv(impact_penalty, 100), 0)),
        0)

\* TWAMMCalculator::calculate_execution_quality.
calculator_calculate_execution_quality(c, expected_out, actual_out, price_impact_bps) ==
    Min(100,
        Quality(c.precision_factor,
                OutputRatio(c.precision_factor, expected_out, actual_out),
                ImpactPenalty(price_impact_bps)))

\* -------------------------------------------------------------- order pool

\* Order::default().
DefaultOrder ==
    [id |-> 0, owner |-> "", order_type |-> "Instant",
     direction |-> "SellToken0", sell_rate |-> 0, remaining_amount |-> 0,
     start_block |-> 0, end_block |-> 0, last_virtual_order_block |-> 0,
     accumulated_out |-> 0]

\* VirtualOrderState::default().
DefaultVirtualOrderState ==
    [last_virtual_order_block |-> 0, sell_rate_0_to_1 |-> 0,
     sell_rate_1_to_0 |-> 0, order_block_interval |-> 100]

\* OrderPool::default().
DefaultOrderPool ==
    [orders |-> << >>, next_order_id |-> 1,
     virtual_order_state |-> DefaultVirtualOrderState,
     total_sell_rate_0 |-> 0, total_sell_rate_1 |-> 0]

\* The all-zero VirtualExecutionResult of a stale call, also the filler of a
\* call that returns no result.
ZeroExecution(reserve_0, reserve_1) ==
    [blocks_executed |-> 0, amount_0_sold |-> 0, amount_1_sold |-> 0,
     amount_0_received |-> 0, amount_1_received |-> 0,
     new_reserve_0 |-> reserve_0, new_reserve_1 |-> reserve_1,
     gas_used_estimate |-> 0]

\* Vec::remove(index): the element is taken out, the later ones shift down.
RemoveAt(seq, index) ==
    [j \in 1..(Len(seq) - 1) |-> IF j < index THEN seq[j] ELSE seq[j + 1]]

\* iter().position(|order| order.id == order_id): the first match, 0 for None.
PositionOfId(os, order_id) ==
    IF \E i \in 1..Len(os) : os[i].id = order_id
    THEN CHOOSE i \in 1..Len(os) :
             /\ os[i].id = order_id
             /\ \A j \in 1..(i - 1) : os[j].id # order_id
    ELSE 0

\* A creation that adds sell_rate to the other direction's aggregate rate.
AddRateOther(p, direction, sell_rate) ==
    IF direction = "SellToken0"
    THEN CheckedAdd(p.total_sell_rate_1, sell_rate)
    ELSE CheckedAdd(p.total_sell_rate_0, sell_rate)

\* The direction's aggregate rate after a creation adds sell_rate to it.
AddRate(p, direction, sell_rate) ==
    IF direction = "SellToken0"
    THEN CheckedAdd(p.total_sell_rate_0, sell_rate)
    ELSE CheckedAdd(p.total_sell_rate_1, sell_rate)

\* The pool with the direction's aggregate rate set.
WithRate(p, direction, rate) ==
    IF direction = "SellToken0"
    THEN [p EXCEPT !.total_sell_rate_0 = rate]
    ELSE [p EXCEPT !.total_sell_rate_1 = rate]

CreateErr(e, p) == [ok |-> FALSE, err |-> e, ret |-> 0, pool |-> p]

\* A parameter test that looks at the amount only.
InvalidOrderParamsAmountOnly(sell_amount, duration_blocks) == sell_amount = 0

\* sell_amount == U256::ZERO || duration_blocks == U256::ZERO, the parameter
\* test of create_long_term_order.
InvalidOrderParams(sell_amount, duration_blocks) ==
    sell_amount = 0 \/ duration_blocks = 0

\* OrderPool::create_long_term_order.  The order is pushed before the
\* aggregate rate and the id counter are advanced, and each of those two
\* steps returns early on overflow.
create_long_term_order(p, owner, direction, sell_amount, duration_blocks, current_block) ==
    IF InvalidOrderParams(sell_amount, duration_blocks)
    THEN CreateErr("Invalid order parameters", p)
    ELSE LET sell_rate == CheckedDiv(sell_amount, duration_blocks)
             end_block == CheckedAdd(current_block, duration_blocks)
         IN
    IF sell_rate = NONE THEN CreateErr("Division overflow", p)
    ELSE IF end_block = NONE THEN CreateErr("Block overflow", p)
    ELSE LET order ==
                 [id |-> p.next_order_id, owner |-> owner,
                  order_type |-> "LongTerm", direction |-> direction,
                  sell_rate |-> sell_rate, remaining_amount |-> sell_amount,
                  start_block |-> current_block, end_block |-> end_block,
                  last_virtual_order_block |-> current_block,
                  accumulated_out |-> 0]
             pushed == [p EXCEPT !.orders = Append(@, order)]
             rate == AddRate(pushed, direction, sell_rate)
         IN
    IF rate = NONE THEN CreateErr("Rate overflow", pushed)
    ELSE LET rated == WithRate(pushed, direction, rate)
             next_id == CheckedAdd(rated.next_order_id, 1)
         IN
    IF next_id = NONE THEN CreateErr("Order ID overflow", rated)
    ELSE [ok |-> TRUE, err |-> NoErr, ret |-> p.next_order_id,
          pool |-> [rated EXCEPT !.next_order_id = next_id]]

\* An ownership check that lets every caller through.
NotOwnerNever(order, caller) == FALSE

\* order.owner != caller, the ownership check of cancel_order.
NotOwner(order, caller) == order.owner # caller

\* A cancellation that leaves the direction's aggregate rate as it is.
SubRateKept(p, direction, sell_rate) ==
    IF direction = "SellToken0" THEN p.total_sell_rate_0
    ELSE p.total_sell_rate_1

\* The direction's aggregate rate after a cancellation takes sell_rate out.
SubRate(p, direction, sell_rate) ==
    IF direction = "SellToken0"
    THEN CheckedSub(p.total_sell_rate_0, sell_rate)
    ELSE CheckedSub(p.total_sell_rate_1, sell_rate)

CancelErr(e, p) ==
    [ok |-> FALSE, err |-> e, ret |-> DefaultOrder, pool |-> p, index |-> 0]

\* OrderPool::cancel_order.
cancel_order(p, order_id, caller) ==
    LET order_index == PositionOfId(p.orders, order_id) IN
    IF order_index = 0 THEN CancelErr("Order not found", p)
    ELSE LET order == p.orders[order_index] IN
    IF NotOwner(order, caller) THEN CancelErr("Not order owner", p)
    ELSE LET rate == SubRate(p, order.direction, order.sell_rate) IN
    IF rate = NONE THEN CancelErr("Rate underflow", p)
    ELSE [ok |-> TRUE, err |-> NoErr, ret |-> order,
          pool |-> [WithRate(p, order.direction, rate)
                        EXCEPT !.orders = RemoveAt(@, order_index)],
          index |-> order_index]

RECURSIVE ActiveRatesFrom(_, _, _, _, _, _)
\* The loop of get_active_sell_rates from order i on, with the two running
\* totals.
ActiveRatesFrom(os, i, start_block, end_block, total_rate_0, total_rate_1) ==
    IF i > Len(os)
    THEN [err |-> NoErr, rate_0 |-> total_rate_0, rate_1 |-> total_rate_1]
    ELSE LET order == os[i]
             effective_start == Max(order.start_block, start_block)
             effective_end == Min(order.end_block, end_block)
             sum_0 == CheckedAdd(total_rate_0, order.sell_rate)
             sum_1 == CheckedAdd(total_rate_1, order.sell_rate)
         IN
    IF order.order_type # "LongTerm"
    THEN ActiveRatesFrom(os, i + 1, start_block, end_block,
                         total_rate_0, total_rate_1)
    ELSE IF order.end_block <= start_block \/ order.start_block >= end_block
    THEN ActiveRatesFrom(os, i + 1, start_block, end_block,
                         total_rate_0, total_rate_1)
    ELSE IF ~(effective_end > effective_start)
    THEN ActiveRatesFrom(os, i + 1, start_block, end_block,
                         total_rate_0, total_rate_1)
    ELSE IF order.direction = "SellToken0"
    THEN IF sum_0 = NONE
         THEN [err |-> "Rate calculation overflow", rate_0 |-> 0, rate_1 |-> 0]
         ELSE ActiveRatesFrom(os, i + 1, start_block, end_block,
                              sum_0, total_rate_1)
    ELSE IF sum_1 = NONE
         THEN [err |-> "Rate calculation overflow", rate_0 |-> 0, rate_1 |-> 0]
         ELSE ActiveRatesFrom(os, i + 1, start_block, end_block,
                              total_rate_0, sum_1)

\* The rates of all the orders of the pool, whatever the window.
ActiveRatesOfAll(p, start_block, end_block) ==
    ActiveRatesFrom(p.orders, 1, 0, UMax, 0, 0)

\* OrderPool::get_active_sell_rates.
get_active_sell_rates(p, start_block, end_block) ==
    ActiveRatesFrom(p.orders, 1, start_block, end_block, 0, 0)

\* A charge by wrapping subtraction, without the min.
NewRemainingWrapping(remaining_amount, amount_sold) ==
    (remaining_amount - amount_sold) % (UMax + 1)

\* remaining_amount.checked_sub(amount_sold.min(remaining_amount))
\*                 .unwrap_or(ZERO)
NewRemaining(remaining_amount, amount_sold) ==
    UnwrapOr(CheckedSub(remaining_amount, Min(amount_sold, remaining_amount)), 0)

\* The share of the opposite token's received amount of one order: the
\* amount times the order's rate over the pool's aggregate rate of the
\* order's direction; NONE when the product overflows.
ReceivedAmount(order, total_sell_rate_0, total_sell_rate_1, amount_0_received, amount_1_received) ==
    IF order.direction = "SellToken0"
    THEN IF total_sell_rate_0 > 0
         THEN CheckedDiv(CheckedMul(amount_1_received, order.sell_rate),
                         total_sell_rate_0)
         ELSE 0
    ELSE IF total_sell_rate_1 > 0
         THEN CheckedDiv(CheckedMul(amount_0_received, order.sell_rate),
                         total_sell_rate_1)
         ELSE 0

\* The assignments of the update loop's body for one order, given the
\* amount sold and the amount received that the body computed.  The order
\* is mutated in place, field by field, so an early return leaves the
\* assignments made before it.
ChargeAndCredit(order, amount_sold, received_amount, current_block) ==
    LET charged == [order EXCEPT
                       !.remaining_amount = NewRemaining(@, amount_sold)]
        accumulated == CheckedAdd(order.accumulated_out, received_amount)
    IN
    IF amount_sold = NONE
    THEN [err |-> "Amount calculation overflow", order |-> order,
          received |-> 0]
    ELSE IF received_amount = NONE
    THEN [err |-> "Distribution calculation overflow", order |-> charged,
          received |-> 0]
    ELSE IF accumulated = NONE
    THEN [err |-> "Accumulated amount overflow", order |-> charged,
          received |-> 0]
    ELSE [err |-> NoErr,
          order |-> [charged EXCEPT
                        !.accumulated_out = accumulated,
                        !.last_virtual_order_block = current_block],
          received |-> received_amount]

\* The body of the update loop for one order that is neither skipped nor
\* expired.
UpdateOrder(order, total_sell_rate_0, total_sell_rate_1, blocks_elapsed, amount_0_received, amount_1_received, current_block) ==
    ChargeAndCredit(order, CheckedMul(order.sell_rate, blocks_elapsed),
                    ReceivedAmount(order, total_sell_rate_0,
                                   total_sell_rate_1, amount_0_received,
                                   amount_1_received),
                    current_block)

\* The loop's record after the body ran on order i with the outcome u: on an
\* error the order as mutated so far is kept and the loop ends, otherwise
\* the order is written back, marked for removal when nothing remains, and
\* its credit is added to its direction's.
Updated(acc, i, order, u) ==
    IF u.err # NoErr
    THEN [acc EXCEPT !.err = u.err, !.orders[i] = u.order]
    ELSE [acc EXCEPT
             !.orders[i] = u.order,
             !.to_remove = IF u.order.remaining_amount = 0
                           THEN Append(@, i) ELSE @,
             !.credit_0 = IF order.direction = "SellToken0"
                          THEN @ + u.received ELSE @,
             !.credit_1 = IF order.direction = "SellToken1"
                          THEN @ + u.received ELSE @,
             !.updated = @ \cup {i}]

\* One iteration of the first loop of update_orders_after_execution, on the
\* order at index i.
LoopBody(acc, i, order, total_sell_rate_0, total_sell_rate_1, blocks_elapsed, amount_0_received, amount_1_received, current_block) ==
    IF order.order_type # "LongTerm" THEN acc
    ELSE IF current_block >= order.end_block
    THEN [acc EXCEPT !.to_remove = Append(@, i)]
    ELSE Updated(acc, i, order,
                 UpdateOrder(order, total_sell_rate_0, total_sell_rate_1,
                             blocks_elapsed, amount_0_received,
                             amount_1_received, current_block))

RECURSIVE UpdateLoop(_, _, _, _, _, _, _, _, _)
\* The first loop of update_orders_after_execution from order i on; it ends
\* at the first error.  acc carries the orders as mutated so far, the
\* indices marked for removal and the amounts credited so far to the
\* sellers of token0 and of token1.
UpdateLoop(acc, i, total_sell_rate_0, total_sell_rate_1, blocks_elapsed, amount_0_received, amount_1_received, current_block, n) ==
    IF i > n \/ acc.err # NoErr THEN acc
    ELSE UpdateLoop(
             LoopBody(acc, i, acc.orders[i], total_sell_rate_0,
                      total_sell_rate_1, blocks_elapsed, amount_0_received,
                      amount_1_received, current_block),
             i + 1, total_sell_rate_0, total_sell_rate_1, blocks_elapsed,
             amount_0_received, amount_1_received, current_block, n)

\* An update that removes no order.
RemoveNone(p, to_remove, k) == p

RECURSIVE RemoveCompleted(_, _, _)
\* The second loop of update_orders_after_execution: the marked indices in
\* reverse order, from position k of to_remove down to the first.
RemoveCompleted(p, to_remove, k) ==
    IF k = 0 THEN p
    ELSE LET completed_order == p.orders[to_remove[k]]
             rate == UnwrapOr(SubRate(p, completed_order.direction,
                                      completed_order.sell_rate), 0)
         IN  RemoveCompleted(
                 [WithRate(p, completed_order.direction, rate)
                     EXCEPT !.orders = RemoveAt(@, to_remove[k])],
                 to_remove, k - 1)

\* update_orders_after_execution once its first loop has ended with the record
\* looped: an error returns with the orders as mutated so far and nothing
\* removed, otherwise the marked orders are removed.  removed, credit_0,
\* credit_1 and updated report what the call did: the indices removed, the
\* amounts credited per direction and the indices charged and credited.
AfterUpdateLoop(p, looped) ==
    IF looped.err # NoErr
    THEN [err |-> looped.err, pool |-> [p EXCEPT !.orders = looped.orders],
          removed |-> {}, credit_0 |-> looped.credit_0,
          credit_1 |-> looped.credit_1, updated |-> looped.updated]
    ELSE [err |-> NoErr,
          pool |-> RemoveCompleted([p EXCEPT !.orders = looped.orders],
                                   looped.to_remove, Len(looped.to_remove)),
          removed |-> {looped.to_remove[k] : k \in 1..Len(looped.to_remove)},
          credit_0 |-> looped.credit_0, credit_1 |-> looped.credit_1,
          updated |-> looped.updated]

\* OrderPool::update_orders_after_execution.
update_orders_after_execution(p, blocks_elapsed, amount_0_received, amount_1_received, current_block) ==
    AfterUpdateLoop(p,
        UpdateLoop([err |-> NoErr, orders |-> p.orders, to_remove |-> << >>,
                    credit_0 |-> 0, credit_1 |-> 0, updated |-> {}],
                   1, p.total_sell_rate_0, p.total_sell_rate_1,
                   blocks_elapsed, amount_0_received, amount_1_received,
                   current_block, Len(p.orders)))

ExecuteErr(e, p, current_reserve_0, current_reserve_1) ==
    [ok |-> FALSE, err |-> e,
     ret |-> ZeroExecution(current_reserve_0, current_reserve_1), pool |-> p,
     removed |-> {}, credit_0 |-> 0, credit_1 |-> 0, updated |-> {}]

\* A catch-up that fails after update_orders_after_execution ran: the pool q
\* it leaves and what the update did.
ExecuteFailed(e, q, upd, current_reserve_0, current_reserve_1) ==
    [ok |-> FALSE, err |-> e,
     ret |-> ZeroExecution(current_reserve_0, current_reserve_1), pool |-> q,
     removed |-> upd.removed, credit_0 |-> upd.credit_0,
     credit_1 |-> upd.credit_1, updated |-> upd.updated]

\* execute_virtual_orders from the return of update_orders_after_execution
\* (upd) on: the pool's last_virtual_order_block is set, then the amounts
\* sold and the gas estimate are computed, each with an early return.
ExecuteAfterUpdate(current_block, current_reserve_0, current_reserve_1, blocks_elapsed, active, engine, upd) ==
    LET caught_up ==
            [upd.pool EXCEPT
                !.virtual_order_state.last_virtual_order_block =
                    current_block]
        amount_0_sold == CheckedMul(active.rate_0, blocks_elapsed)
        amount_1_sold == CheckedMul(active.rate_1, blocks_elapsed)
        gas_estimate == CheckedMul(blocks_elapsed, 21000)
    IN
    IF upd.err # NoErr
    THEN ExecuteFailed(upd.err, upd.pool, upd,
                       current_reserve_0, current_reserve_1)
    ELSE IF amount_0_sold = NONE \/ amount_1_sold = NONE
    THEN ExecuteFailed("Calculation overflow", caught_up, upd,
                       current_reserve_0, current_reserve_1)
    ELSE IF gas_estimate = NONE
    THEN ExecuteFailed("Gas calculation overflow", caught_up, upd,
                       current_reserve_0, current_reserve_1)
    ELSE [ok |-> TRUE, err |-> NoErr,
          ret |-> [blocks_executed |-> blocks_elapsed,
                   amount_0_sold |-> amount_0_sold,
                   amount_1_sold |-> amount_1_sold,
                   amount_0_received |-> engine.amount_0_received,
                   amount_1_received |-> engine.amount_1_received,
                   new_reserve_0 |-> engine.new_reserve_0,
                   new_reserve_1 |-> engine.new_reserve_1,
                   gas_used_estimate |-> gas_estimate],
          pool |-> caught_up, removed |-> upd.removed,
          credit_0 |-> upd.credit_0, credit_1 |-> upd.credit_1,
          updated |-> upd.updated]

\* execute_virtual_orders from the return of the engine call (engine) on.
ExecuteAfterEngine(p, current_block, current_reserve_0, current_reserve_1, blocks_elapsed, active, engine) ==
    IF engine.err # NoErr
    THEN ExecuteErr(MathErrorMessage(engine.err), p,
                    current_reserve_0, current_reserve_1)
    ELSE ExecuteAfterUpdate(
             current_block, current_reserve_0, current_reserve_1,
             blocks_elapsed, active, engine,
             update_orders_after_execution(
                 p, blocks_elapsed, engine.amount_0_received,
                 engine.amount_1_received, current_block))

\* execute_virtual_orders from the return of get_active_sell_rates (active)
\* on.
ExecuteAfterRates(p, current_block, current_reserve_0, current_reserve_1, blocks_elapsed, active) ==
    IF active.err # NoErr
    THEN ExecuteErr(active.err, p, current_reserve_0, current_reserve_1)
    ELSE ExecuteAfterEngine(
             p, current_block, current_reserve_0, current_reserve_1,
             blocks_elapsed, active,
             execute_virtual_orders_closed_form(
                 active.rate_0, active.rate_1, blocks_elapsed,
                 current_reserve_0, current_reserve_1))

\* A stale test that lets a call at the last catch-up block through.
StaleStrict(current_block, last_block) == current_block < last_block

\* current_block <= last_block, the stale test of execute_virtual_orders.
Stale(current_block, last_block) == current_block <= last_block

\* OrderPool::execute_virtual_orders.
execute_virtual_orders(p, current_block, current_reserve_0, current_reserve_1) ==
    IF Stale(current_block, p.virtual_order_state.last_virtual_order_block)
    THEN [ok |-> TRUE, err |-> NoErr,
          ret |-> ZeroExecution(current_reserve_0, current_reserve_1),
          pool |-> p, removed |-> {}, credit_0 |-> 0, credit_1 |-> 0,
          updated |-> {}]
    ELSE ExecuteAfterRates(
             p, current_block, current_reserve_0, current_reserve_1,
             current_block - p.virtual_order_state.last_virtual_order_block,
             get_active_sell_rates(
                 p, p.virtual_order_state.last_virtual_order_block,
                 current_block))

\* A test of the elapsed blocks by wrapping subtraction.
NeedsExecutionWrapping(p, current_block) ==
    IF Len(p.orders) = 0 THEN FALSE
    ELSE (current_block - p.virtual_order_state.last_virtual_order_block)
             % (UMax + 1)
         >= p.virtual_order_state.order_block_interval

\* OrderPool::needs_virtual_order_execution.
needs_virtual_order_execution(p, current_block) ==
    IF Len(p.orders) = 0 THEN FALSE
    ELSE UnwrapOr(CheckedSub(current_block,
                             p.virtual_order_state.last_virtual_order_block),
                  0)
         >= p.virtual_order_state.order_block_interval

\* OrderPool::set_order_block_interval.
set_order_block_interval(p, interval) ==
    IF interval = 0
    THEN [ok |-> FALSE, err |-> "Invalid block interval", pool |-> p]
    ELSE [ok |-> TRUE, err |-> NoErr,
          pool |-> [p EXCEPT
                       !.virtual_order_state.order_block_interval = interval]]

\* ------------------------------------------------------------ state machine

VARIABLES
    orders,               \* OrderPool.orders
    next_order_id,        \* OrderPool.next_order_id
    virtual_order_state,  \* OrderPool.virtual_order_state
    total_sell_rate_0,    \* OrderPool.total_sell_rate_0
    total_sell_rate_1,    \* OrderPool.total_sell_rate_1
    created,              \* history: per order of the pool, in the order of
                          \* orders, the sell_amount it was created with
    executes,             \* history: the catch-ups so far that changed the
                          \* pool
    last,                 \* history: the last call and how it ended
    keeper_block,         \* history: the largest current_block of a catch-up
                          \* the keeper executed successfully
    calculator,           \* the storage of the TWAMMCalculator contract
    called                \* history: the last call of the calculator or of
                          \* TWAMMath, its arguments and its result

vars == <<orders, next_order_id, virtual_order_state, total_sell_rate_0,
          total_sell_rate_1, created, executes, last, keeper_block,
          calculator, called>>

\* The variables of the order pool.
poolvars == <<orders, next_order_id, virtual_order_state, total_sell_rate_0,
              total_sell_rate_1, created, executes, last, keeper_block>>

\* The variables of the calculator and the library.
calcvars == <<calculator, called>>

\* The OrderPool value held by the variables.
Pool ==
    [orders |-> orders, next_order_id |-> next_order_id,
     virtual_order_state |-> virtual_order_state,
     total_sell_rate_0 |-> total_sell_rate_0,
     total_sell_rate_1 |-> total_sell_rate_1]

\* The variables take the OrderPool value p.
SetPool(p) ==
    /\ orders' = p.orders
    /\ next_order_id' = p.next_order_id
    /\ virtual_order_state' = p.virtual_order_state
    /\ total_sell_rate_0' = p.total_sell_rate_0
    /\ total_sell_rate_1' = p.total_sell_rate_1

\* order_id arguments of cancel_order: every id a creation can have handed
\* out, and one more.
OrderIds == 1..(MaxOrderId + 1)

\* The elements of seq that are not at an index in removed, in their order.
Keep(seq, removed) ==
    LET kept == {i \in 1..Len(seq) : i \notin removed}
        nth(k) == CHOOSE i \in kept :
                      Cardinality({j \in kept : j <= i}) = k
    IN  [k \in 1..Cardinality(kept) |-> seq[nth(k)]]

Init ==
    /\ orders = DefaultOrderPool.orders
    /\ next_order_id = DefaultOrderPool.next_order_id
    /\ virtual_order_state = DefaultOrderPool.virtual_order_state
    /\ total_sell_rate_0 = DefaultOrderPool.total_sell_rate_0
    /\ total_sell_rate_1 = DefaultOrderPool.total_sell_rate_1
    /\ created = << >>
    /\ executes = 0
    /\ last = [op |-> "none", ok |-> TRUE, err |-> NoErr]
    /\ keeper_block = 0
    /\ calculator = DefaultCalculator
    /\ called = [op |-> "none", args |-> << >>, result |-> << >>]

\* A call of create_long_term_order.
Create ==
    \E owner \in Owners, request \in OrderRequests :
        LET direction == request[1]
            sell_amount == request[2]
            duration_blocks == request[3]
            current_block == request[4]
            r == create_long_term_order(Pool, owner, direction, sell_amount,
                                        duration_blocks, current_block)
        IN  /\ Len(orders) < MaxOrders
            /\ next_order_id <= MaxOrderId
            /\ SetPool(r.pool)
            /\ created' = IF Len(r.pool.orders) > Len(orders)
                          THEN Append(created, sell_amount)
                          ELSE created
            /\ executes' = executes
            /\ last' = [op |-> "create", ok |-> r.ok, err |-> r.err]
            /\ UNCHANGED <<keeper_block, calcvars>>

\* A call of cancel_order.
Cancel ==
    \E order_id \in OrderIds, caller \in Addresses :
        LET r == cancel_order(Pool, order_id, caller) IN
            /\ SetPool(r.pool)
            /\ created' = IF r.ok THEN Keep(created, {r.index}) ELSE created
            /\ executes' = executes
            /\ last' = [op |-> "cancel", ok |-> r.ok, err |-> r.err]
            /\ UNCHANGED <<keeper_block, calcvars>>

\* A call of execute_virtual_orders.
Execute ==
    \E current_block \in Blocks, reserves \in ReservePairs :
        LET r == execute_virtual_orders(Pool, current_block, reserves[1],
                                        reserves[2])
        IN  /\ executes < MaxExecutes
            /\ SetPool(r.pool)
            /\ created' = Keep(created, r.removed)
            /\ executes' = IF r.pool = Pool THEN executes ELSE executes + 1
            /\ last' = [op |-> "execute", ok |-> r.ok, err |-> r.err]
            /\ UNCHANGED <<keeper_block, calcvars>>

\* A call of set_order_block_interval.
SetInterval ==
    \E interval \in Intervals :
        LET r == set_order_block_interval(Pool, interval) IN
            /\ SetPool(r.pool)
            /\ created' = created
            /\ executes' = executes
            /\ last' = [op |-> "set_interval", ok |-> r.ok, err |-> r.err]
            /\ UNCHANGED <<keeper_block, calcvars>>

Next == Create \/ Cancel \/ Execute \/ SetInterval

Spec == Init /\ [][Next]_vars

\* ------------------------------------------------- keeper state machine
\*
\* The pool driven by a keeper: the catch-ups that succeed come with ever
\* larger current_block, a catch-up that fails may come with any, and orders
\* are created and cancelled as before.  The catch-ups are not counted.

\* current_block arguments of the keeper's catch-ups: those of Blocks and the
\* end block of the order of the decay scenario.
KeeperBlocks == Blocks \cup {1100}

\* The step of a call of execute_virtual_orders with the outcome r.
CatchUpStep(r) ==
    /\ SetPool(r.pool)
    /\ created' = Keep(created, r.removed)
    /\ executes' = executes
    /\ last' = [op |-> "execute", ok |-> r.ok, err |-> r.err]
    /\ UNCHANGED calcvars

\* A call of execute_virtual_orders by the keeper that succeeds, at a
\* current_block above that of every successful one before.
CatchUp ==
    \E current_block \in KeeperBlocks, reserves \in ReservePairs :
        \E r \in {execute_virtual_orders(Pool, current_block, reserves[1], reserves[2])} :
            /\ current_block > keeper_block
            /\ r.ok
            /\ CatchUpStep(r)
            /\ keeper_block' = current_block

\* A call of execute_virtual_orders that returns an error.
FailedCatchUp ==
    \E current_block \in KeeperBlocks, reserves \in ReservePairs :
        \E r \in {execute_virtual_orders(Pool, current_block, reserves[1], reserves[2])} :
            /\ ~r.ok
            /\ CatchUpStep(r)
            /\ keeper_block' = keeper_block

KeeperNext == Create \/ Cancel \/ CatchUp \/ FailedCatchUp \/ SetInterval

\* The keeper does not stop while a successful catch-up at a larger block is
\* possible.
KeeperSpec == Init /\ [][KeeperNext]_vars /\ WF_vars(CatchUp)

\* ------------------------------------ calculator and library state machine

\* The most successful calculations counted in one behaviour.
MaxCalculations == 1

\* precision arguments of the TWAMMath functions.
Precisions == {Precision, Precision + 2}

\* <<initial_x, initial_y, sell_rate_x, sell_rate_y, time_blocks>>
\* arguments of calculate_virtual_amm_state.
AmmStateRequests ==
    {<<5000, 5000, 0, 0, 5>>, <<5000, 5000, 0, 0, 0>>,
     <<5000, 5000, 10, 0, 5>>, <<5000, 5000, 0, 10, 5>>,
     <<5000, 5000, 10, 20, 5>>, <<10000, 10000, 10, 0, 100>>,
     <<100, 1, 1, 0, 2>>, <<0, 5000, 10, 0, 5>>,
     <<UMax - 1, 1, (UMax + 1) \div 16, 0, 1>>, <<UMax, 1, 1, 0, 1>>,
     <<1000000, 1000000, 10, 20, 5>>}

\* <<trade_size, reserve_in, reserve_out>> arguments of
\* calculate_price_impact.
ImpactRequests ==
    {<<1000, 1000, 1000>>, <<1000, 10000, 10000>>, <<1, 10000, 10000>>,
     <<0, 1000, 1000>>, <<1000, 0, 1000>>, <<1000, 10, 10>>,
     <<1, UMax, 1>>}

\* <<expected_amount, actual_amount, price_impact_bps>> arguments of
\* calculate_execution_quality.
QualityRequests ==
    {<<100, 100, 0>>, <<100, 90, 700>>, <<100, 50, 6000>>, <<1, 3, 0>>,
     <<0, 5, 500>>, <<100, 0, 0>>}

\* <<sell_rate_0, sell_rate_1, blocks_elapsed, reserve_0, reserve_1>>
\* arguments of calculate_virtual_trades.
TradeRequests ==
    {<<0, 0, 10, 1000, 1000>>, <<10, 0, 10, 1000, 1000>>,
     <<0, 10, 10, 1000, 1000>>, <<10, 5, 10, 1000, 2000>>,
     <<1, 0, 1, 1000, 10>>, <<0, 0, 0, 1000, 1000>>,
     <<0, 0, 10, 0, 1000>>, <<11, 0, 10, 1000, 1000>>,
     <<1, 0, UMax, 1000, 1000>>}

\* <<total_amount, available_time, reserve_in, reserve_out,
\* target_impact_bps>> arguments of calculate_optimal_rate.
OptimalRateRequests ==
    {<<1000, 10, 10000, 10000, 5000>>, <<100, 1, 10, 10, 100>>,
     <<2, 1, 1, 10, 100>>, <<1000, 0, 10, 10, 100>>,
     <<100, 1, 0, 10, 100>>}

\* sell_amount, duration_blocks and current_reserve arguments of
\* validate_order_params.
SellAmounts == {0, 1, 100, 101}

Durations == {0, 5, 9, 10, 1000000, 1000001}

CurrentReserves == {0, 9, 1000, UMax}

\* <<max_price_impact_bps, precision_factor>> arguments of update_config.
ConfigRequests == {<<1000, One>>, <<5001, One>>, <<1000, 0>>}

\* A call of initialize.
Initialize ==
    \E owner_addr \in Owners :
        /\ calculator' = initialize(calculator, owner_addr)
        /\ called' = [op |-> "initialize", args |-> <<owner_addr>>,
                      result |-> TRUE]
        /\ UNCHANGED poolvars

\* A call of set_emergency_mode.
SetEmergencyMode ==
    \E enabled \in BOOLEAN :
        /\ calculator' = set_emergency_mode(calculator, enabled)
        /\ called' = [op |-> "set_emergency_mode", args |-> <<enabled>>,
                      result |-> TRUE]
        /\ UNCHANGED poolvars

\* A call of update_config.
UpdateConfig ==
    \E request \in ConfigRequests :
        /\ calculator' =
               update_config(calculator, request[1], request[2]).calculator
        /\ called' = [op |-> "update_config", args |-> request,
                      result |->
                          update_config(calculator, request[1],
                                        request[2]).ok]
        /\ UNCHANGED poolvars

\* The record of a call of calculate_virtual_trades.
TradesCalled(request, r) ==
    [op |-> "calculate_virtual_trades", args |-> request,
     result |-> [ok |-> r.ok, err |-> r.err, amount_0 |-> r.amount_0,
                 amount_1 |-> r.amount_1]]

\* A call of calculate_virtual_trades.
CalculateVirtualTrades ==
    \E request \in TradeRequests :
        /\ calculator.total_calculations < MaxCalculations
        /\ calculator' =
               calculate_virtual_trades(calculator, request[1], request[2],
                                        request[3], request[4],
                                        request[5]).calculator
        /\ called' =
               TradesCalled(request,
                   calculate_virtual_trades(calculator, request[1],
                                            request[2], request[3],
                                            request[4], request[5]))
        /\ UNCHANGED poolvars

\* A call of the calculator's calculate_execution_quality.
CalculateExecutionQuality ==
    \E request \in QualityRequests :
        /\ called' = [op |-> "calculator_calculate_execution_quality",
                      args |-> request,
                      result |->
                          calculator_calculate_execution_quality(
                              calculator, request[1], request[2],
                              request[3])]
        /\ UNCHANGED <<poolvars, calculator>>

\* A call of TWAMMath::calculate_virtual_amm_state.
VirtualAmmState ==
    \E request \in AmmStateRequests, precision \in Precisions :
        /\ called' = [op |-> "calculate_virtual_amm_state",
                      args |-> Append(request, precision),
                      result |->
                          calculate_virtual_amm_state(
                              request[1], request[2], request[3],
                              request[4], request[5], precision)]
        /\ UNCHANGED <<poolvars, calculator>>

\* A call of TWAMMath::calculate_price_impact.
PriceImpact ==
    \E request \in ImpactRequests, precision \in Precisions :
        /\ called' = [op |-> "calculate_price_impact",
                      args |-> Append(request, precision),
                      result |->
                          calculate_price_impact(request[1], request[2],
                                                 request[3], precision)]
        /\ UNCHANGED <<poolvars, calculator>>

\* A call of TWAMMath::calculate_execution_quality.
ExecutionQuality ==
    \E request \in QualityRequests, precision \in Precisions :
        /\ called' = [op |-> "calculate_execution_quality",
                      args |-> Append(request, precision),
                      result |->
                          calculate_execution_quality(
                              request[1], request[2], request[3],
                              precision)]
        /\ UNCHANGED <<poolvars, calculator>>

\* A call of TWAMMath::calculate_optimal_rate, in a build with or without
\* overflow checks.
OptimalRate ==
    \E request \in OptimalRateRequests, precision \in Precisions, overflow_checks \in BOOLEAN :
        /\ called' = [op |-> "calculate_optimal_rate",
                      args |-> request \o <<precision, overflow_checks>>,
                      result |->
                          calculate_optimal_rate(
                              request[1], request[2], request[3],
                              request[4], request[5], precision,
                              overflow_checks)]
        /\ UNCHANGED <<poolvars, calculator>>

\* A call of OrderManager::validate_order_params.
ValidateOrderParams ==
    \E sell_amount \in SellAmounts, duration_blocks \in Durations, current_reserve \in CurrentReserves :
        /\ called' = [op |-> "validate_order_params",
                      args |-> <<sell_amount, duration_blocks,
                                 current_reserve>>,
                      result |->
                          validate_order_params(sell_amount, duration_blocks,
                                                current_reserve)]
        /\ UNCHANGED <<poolvars, calculator>>

CalcNext ==
    \/ Initialize
    \/ SetEmergencyMode
    \/ UpdateConfig
    \/ CalculateVirtualTrades
    \/ CalculateExecutionQuality
    \/ VirtualAmmState
    \/ PriceImpact
    \/ ExecutionQuality
    \/ OptimalRate
    \/ ValidateOrderParams

CalcSpec == Init /\ [][CalcNext]_vars

\* ------------------------------------------------------------------ claims

RECURSIVE SumOfRates(_, _, _)
\* The sum of sell_rate over the orders of os from position i on that sell
\* in the direction.
SumOfRates(os, direction, i) ==
    IF i > Len(os) THEN 0
    ELSE (IF os[i].direction = direction THEN os[i].sell_rate ELSE 0)
         + SumOfRates(os, direction, i + 1)

\* The positions of the orders of os that sell in the direction.
Sellers(os, direction) == {i \in 1..Len(os) : os[i].direction = direction}

Distance(a, b) == IF a < b THEN b - a ELSE a - b

\* C1: rate bookkeeping.  After any sequence of calls, failed ones included,
\* each direction's aggregate rate equals the sum of sell_rate over the
\* orders in the pool that sell in that direction.
RateBookkeeping ==
    /\ total_sell_rate_0 = SumOfRates(orders, "SellToken0", 1)
    /\ total_sell_rate_1 = SumOfRates(orders, "SellToken1", 1)

\* C2: settlement conservation.  For every successful catch-up, the amount
\* credited to the orders selling token0 is the token1 amount received for
\* the window, and the amount credited to the orders selling token1 is the
\* token0 amount received, each within one unit per contributing order.  The
\* tolerance allowed here is the largest any reading gives: one unit per
\* order of the direction in the pool.
SettlementConservation ==
    \A current_block \in Blocks, reserves \in ReservePairs :
        LET r == execute_virtual_orders(Pool, current_block,
                                        reserves[1], reserves[2])
        IN  r.ok =>
              /\ Distance(r.credit_0, r.ret.amount_1_received)
                     <= Cardinality(Sellers(orders, "SellToken0"))
              /\ Distance(r.credit_1, r.ret.amount_0_received)
                     <= Cardinality(Sellers(orders, "SellToken1"))

\* C3: remaining-amount decay.  In every pool state in which the order of
\* the scenario (sell_amount 100000, duration_blocks 100) can be created at
\* block 1000, whatever the pool's last catch-up block is, the order has
\* sell_rate 1000 and end_block 1100, and a successful catch-up at block
\* 1050 leaves it in the pool with a remaining_amount of exactly 50000.
RemainingAmountDecay ==
    \A owner \in Owners, direction \in {"SellToken0", "SellToken1"} :
        LET c == create_long_term_order(Pool, owner, direction, 100000, 100,
                                        1000)
            order == c.pool.orders[Len(c.pool.orders)]
        IN  c.ok =>
              /\ order.sell_rate = 1000
              /\ order.end_block = 1100
              /\ order.remaining_amount = 100000
              /\ \A reserves \in ReservePairs :
                     LET e == execute_virtual_orders(c.pool, 1050,
                                                     reserves[1], reserves[2])
                     IN  e.ok =>
                           \E i \in 1..Len(e.pool.orders) :
                               /\ e.pool.orders[i].id = c.ret
                               /\ e.pool.orders[i].remaining_amount = 50000

\* C4: atomic catch-up.  Whenever execute_virtual_orders returns an error
\* the pool is exactly as before the call.
AtomicCatchUp ==
    \A current_block \in Blocks, reserves \in ReservePairs :
        LET r == execute_virtual_orders(Pool, current_block,
                                        reserves[1], reserves[2])
        IN  ~r.ok => r.pool = Pool

\* C5: atomic creation.  Whenever create_long_term_order returns an error
\* the order list, both aggregate rates and next_order_id are exactly as
\* before the call.
AtomicCreation ==
    \A owner \in Owners, request \in OrderRequests :
        LET r == create_long_term_order(Pool, owner, request[1], request[2],
                                        request[3], request[4])
        IN  ~r.ok =>
              /\ r.pool.orders = orders
              /\ r.pool.total_sell_rate_0 = total_sell_rate_0
              /\ r.pool.total_sell_rate_1 = total_sell_rate_1
              /\ r.pool.next_order_id = next_order_id

OrderIdentity ==
    /\ \A i, j \in 1..Len(orders) : i # j => orders[i].id # orders[j].id
    /\ \A owner \in Owners, request \in OrderRequests :
           LET r == create_long_term_order(Pool, owner, request[1],
                                           request[2], request[3], request[4])
           IN  r.ok => \A i \in 1..Len(orders) : orders[i].id < r.ret

\* C8: for every order, while it is in the pool, remaining_amount never
\* increases, is never below zero and never exceeds the sell_amount given at
\* creation.  The orders in the pool are within those limits, and no
\* creation, cancellation or catch-up from the state, failed ones included,
\* raises the remaining_amount of an order that stays in the pool.
RemainingAmountDecreases ==
    /\ Len(created) = Len(orders)
    /\ \A i \in 1..Len(orders) :
           /\ orders[i].remaining_amount >= 0
           /\ orders[i].remaining_amount <= created[i]
    /\ \A owner \in Owners, request \in OrderRequests :
           LET r == create_long_term_order(Pool, owner, request[1],
                                           request[2], request[3], request[4])
           IN  /\ Len(r.pool.orders) >= Len(orders)
               /\ \A i \in 1..Len(orders) :
                      r.pool.orders[i].remaining_amount
                          <= orders[i].remaining_amount
               /\ \A i \in (Len(orders) + 1)..Len(r.pool.orders) :
                      /\ r.pool.orders[i].remaining_amount >= 0
                      /\ r.pool.orders[i].remaining_amount <= request[2]
    /\ \A order_id \in OrderIds, caller \in Addresses :
           LET r == cancel_order(Pool, order_id, caller)
               kept == Keep(orders, {r.index})
           IN  /\ Len(r.pool.orders) = Len(kept)
               /\ \A i \in 1..Len(kept) :
                      r.pool.orders[i].remaining_amount
                          <= kept[i].remaining_amount
    /\ \A current_block \in Blocks, reserves \in ReservePairs :
           LET r == execute_virtual_orders(Pool, current_block,
                                           reserves[1], reserves[2])
               kept == Keep(orders, r.removed)
           IN  /\ Len(r.pool.orders) = Len(kept)
               /\ \A i \in 1..Len(kept) :
                      /\ r.pool.orders[i].id = kept[i].id
                      /\ r.pool.orders[i].remaining_amount >= 0
                      /\ r.pool.orders[i].remaining_amount
                             <= kept[i].remaining_amount

\* C8's case: a catch-up has charged an order that is still in the pool with
\* part of the amount it was created with.
RemainingAmountDecreasesWitness ==
    /\ last.op = "execute"
    /\ \E i \in 1..Len(orders) :
           /\ orders[i].remaining_amount > 0
           /\ orders[i].remaining_amount < created[i]

\* C9: cancel_order fails with Order not found when no order in the pool has
\* the id, and with Not order owner when the caller is not the owner of the
\* order of that id (the first one in the list); in both cases the pool is
\* unchanged.
CancelRejects ==
    \A order_id \in OrderIds, caller \in Addresses :
        LET r == cancel_order(Pool, order_id, caller) IN
        /\ (\A i \in 1..Len(orders) : orders[i].id # order_id) =>
              /\ ~r.ok
              /\ r.err = "Order not found"
              /\ r.pool = Pool
        /\ \A i \in 1..Len(orders) :
               ( /\ orders[i].id = order_id
                 /\ \A j \in 1..(i - 1) : orders[j].id # order_id
                 /\ orders[i].owner # caller ) =>
                   /\ ~r.ok
                   /\ r.err = "Not order owner"
                   /\ r.pool = Pool

\* C9's case: a cancellation by a caller who is not the owner has just been
\* rejected, with orders in the pool.
CancelRejectsWitness ==
    /\ last = [op |-> "cancel", ok |-> FALSE, err |-> "Not order owner"]
    /\ Len(orders) > 0

\* C10: a successful cancel_order removes exactly one order, the first of the
\* given id, which the caller owns; it returns that order as it was, lowers
\* the aggregate rate of the order's direction by exactly its sell_rate, and
\* leaves every other order, the other direction's aggregate rate,
\* next_order_id and the virtual-order state unchanged.
CancelFrame ==
    \A order_id \in OrderIds, caller \in Addresses :
        LET r == cancel_order(Pool, order_id, caller) IN
        r.ok =>
          \E i \in 1..Len(orders) :
              /\ orders[i].id = order_id
              /\ \A j \in 1..(i - 1) : orders[j].id # order_id
              /\ orders[i].owner = caller
              /\ r.ret = orders[i]
              /\ Len(r.pool.orders) = Len(orders) - 1
              /\ \A j \in 1..(i - 1) : r.pool.orders[j] = orders[j]
              /\ \A j \in i..(Len(orders) - 1) :
                     r.pool.orders[j] = orders[j + 1]
              /\ IF orders[i].direction = "SellToken0"
                 THEN /\ r.pool.total_sell_rate_0 + orders[i].sell_rate
                             = total_sell_rate_0
                      /\ r.pool.total_sell_rate_1 = total_sell_rate_1
                 ELSE /\ r.pool.total_sell_rate_1 + orders[i].sell_rate
                             = total_sell_rate_1
                      /\ r.pool.total_sell_rate_0 = total_sell_rate_0
              /\ r.pool.total_sell_rate_0 >= 0
              /\ r.pool.total_sell_rate_1 >= 0
              /\ r.pool.next_order_id = next_order_id
              /\ r.pool.virtual_order_state = virtual_order_state

\* C10's case: a cancellation has just succeeded and left another order in
\* the pool.
CancelFrameWitness ==
    /\ last = [op |-> "cancel", ok |-> TRUE, err |-> NoErr]
    /\ Len(orders) > 0

\* C11: create_long_term_order rejects a zero sell_amount and a zero
\* duration_blocks with Invalid order parameters, and the pool is unchanged.
CreateRejectsZero ==
    \A owner \in Owners, direction \in {"SellToken0", "SellToken1"},
       sell_amount \in {0, 1, 100000, UMax}, duration_blocks \in {0, 1, 100},
       current_block \in {1000, UMax} :
        LET r == create_long_term_order(Pool, owner, direction, sell_amount,
                                        duration_blocks, current_block)
        IN  (sell_amount = 0 \/ duration_blocks = 0) =>
              /\ ~r.ok
              /\ r.err = "Invalid order parameters"
              /\ r.pool = Pool

\* C11's case: a creation has just been rejected for a zero parameter, with
\* an order in the pool.
CreateRejectsZeroWitness ==
    /\ last = [op |-> "create", ok |-> FALSE,
               err |-> "Invalid order parameters"]
    /\ Len(orders) > 0

\* C12: a successful create_long_term_order appends exactly one LongTerm
\* order with sell_rate = floor(amount / duration), remaining_amount =
\* amount, start_block = block, end_block = block + duration > start_block
\* and accumulated_out = 0; it returns the order's id, the previous
\* next_order_id; it raises only the direction's aggregate rate, by
\* sell_rate; the existing orders and the virtual-order state are unchanged.
CreateFrame ==
    \A owner \in Owners, request \in OrderRequests :
        LET direction == request[1]
            sell_amount == request[2]
            duration_blocks == request[3]
            current_block == request[4]
            r == create_long_term_order(Pool, owner, direction, sell_amount,
                                        duration_blocks, current_block)
            order == r.pool.orders[Len(r.pool.orders)]
        IN  r.ok =>
              /\ Len(r.pool.orders) = Len(orders) + 1
              /\ \A i \in 1..Len(orders) : r.pool.orders[i] = orders[i]
              /\ order.order_type = "LongTerm"
              /\ order.owner = owner
              /\ order.direction = direction
              /\ order.sell_rate = sell_amount \div duration_blocks
              /\ order.remaining_amount = sell_amount
              /\ order.start_block = current_block
              /\ order.end_block = current_block + duration_blocks
              /\ order.end_block > order.start_block
              /\ order.end_block <= UMax
              /\ order.accumulated_out = 0
              /\ order.id = next_order_id
              /\ r.ret = next_order_id
              /\ IF direction = "SellToken0"
                 THEN /\ r.pool.total_sell_rate_0
                             = total_sell_rate_0 + order.sell_rate
                      /\ r.pool.total_sell_rate_1 = total_sell_rate_1
                 ELSE /\ r.pool.total_sell_rate_1
                             = total_sell_rate_1 + order.sell_rate
                      /\ r.pool.total_sell_rate_0 = total_sell_rate_0
              /\ r.pool.virtual_order_state = virtual_order_state

\* C12's case: a creation has just succeeded on a pool that already held an
\* order.
CreateFrameWitness ==
    /\ last = [op |-> "create", ok |-> TRUE, err |-> NoErr]
    /\ Len(orders) > 1

\* C13: after a successful execute_virtual_orders at a current_block above
\* the pool's last catch-up block, no order in the pool has remaining_amount
\* 0 or end_block <= current_block, every order removed had expired or was
\* exhausted by the charge of the window, and every order that remains has
\* last_virtual_order_block = current_block.
CatchUpSweeps ==
    \A current_block \in Blocks, reserves \in ReservePairs :
        LET last_block == virtual_order_state.last_virtual_order_block
            r == execute_virtual_orders(Pool, current_block,
                                        reserves[1], reserves[2])
            kept == Keep(orders, r.removed)
        IN  (r.ok /\ current_block > last_block) =>
              /\ \A i \in 1..Len(r.pool.orders) :
                     /\ r.pool.orders[i].remaining_amount # 0
                     /\ r.pool.orders[i].end_block > current_block
                     /\ r.pool.orders[i].last_virtual_order_block
                            = current_block
              /\ r.removed \subseteq 1..Len(orders)
              /\ \A i \in r.removed :
                     \/ orders[i].end_block <= current_block
                     \/ orders[i].remaining_amount
                            <= CheckedMul(orders[i].sell_rate,
                                          current_block - last_block)
              /\ Len(r.pool.orders) = Len(kept)
              /\ \A i \in 1..Len(kept) : r.pool.orders[i].id = kept[i].id

\* C13's case: a catch-up has just succeeded and advanced the pool's last
\* catch-up block, and an order it updated is still in the pool.
CatchUpSweepsWitness ==
    /\ last = [op |-> "execute", ok |-> TRUE, err |-> NoErr]
    /\ virtual_order_state.last_virtual_order_block > 0
    /\ \E i \in 1..Len(orders) :
           /\ orders[i].last_virtual_order_block
                  = virtual_order_state.last_virtual_order_block
           /\ orders[i].remaining_amount < created[i]

\* C14: a stale call, with current_block at or below the pool's last
\* catch-up block, succeeds, reports zero blocks executed, zero amounts sold
\* and received, a zero gas estimate and the reserves it was given, and
\* leaves the pool unchanged, expired or exhausted orders included.
StaleCallNoOp ==
    \A current_block \in Blocks \cup {0, 1}, reserves \in ReservePairs :
        LET r == execute_virtual_orders(Pool, current_block,
                                        reserves[1], reserves[2])
        IN  current_block <= virtual_order_state.last_virtual_order_block =>
              /\ r.ok
              /\ r.ret = [blocks_executed |-> 0, amount_0_sold |-> 0,
                          amount_1_sold |-> 0, amount_0_received |-> 0,
                          amount_1_received |-> 0,
                          new_reserve_0 |-> reserves[1],
                          new_reserve_1 |-> reserves[2],
                          gas_used_estimate |-> 0]
              /\ r.pool = Pool

\* C14's case: a call of execute_virtual_orders has just succeeded on a pool
\* that holds an expired order, which only a stale call leaves in place.
StaleCallNoOpWitness ==
    /\ last = [op |-> "execute", ok |-> TRUE, err |-> NoErr]
    /\ \E i \in 1..Len(orders) :
           orders[i].end_block
               <= virtual_order_state.last_virtual_order_block

\* C15: needs_virtual_order_execution(current_block) is true exactly when
\* the pool holds an order and current_block is at least the configured
\* interval above the last catch-up block; it is false for every
\* current_block below the last catch-up block.  The interval is never zero.
NeedsExecution ==
    /\ virtual_order_state.order_block_interval > 0
    /\ \A current_block \in Blocks \cup {0, 1, 999, 1049, 1099, 1100} :
           LET last_block == virtual_order_state.last_virtual_order_block
               needed == needs_virtual_order_execution(Pool, current_block)
           IN  /\ needed <=>
                     /\ Len(orders) > 0
                     /\ current_block >= last_block
                     /\ current_block - last_block
                            >= virtual_order_state.order_block_interval
               /\ current_block < last_block => ~needed

\* C15's case: the interval has just been set, the pool holds an order, a
\* catch-up is needed at block 1050 and none is needed at a block below the
\* last catch-up block.
NeedsExecutionWitness ==
    /\ last = [op |-> "set_interval", ok |-> TRUE, err |-> NoErr]
    /\ Len(orders) > 0
    /\ virtual_order_state.last_virtual_order_block = 1000
    /\ needs_virtual_order_execution(Pool, 1050)
    /\ ~needs_virtual_order_execution(Pool, 999)

\* The last call was a unidirectional calculate_virtual_amm_state (exactly
\* one sell rate non-zero) that returned Ok.
UnidirectionalOk ==
    /\ called.op = "calculate_virtual_amm_state"
    /\ (called.args[3] = 0) # (called.args[4] = 0)
    /\ called.result.status = "ok"

\* The reserve the last unidirectional computation sold into and the one it
\* bought from, before and after.
ReserveIn == IF called.args[4] = 0 THEN called.args[1] ELSE called.args[2]

ReserveOut == IF called.args[4] = 0 THEN called.args[2] ELSE called.args[1]

NewReserveIn ==
    IF called.args[4] = 0 THEN called.result.x ELSE called.result.y

NewReserveOut ==
    IF called.args[4] = 0 THEN called.result.y ELSE called.result.x

\* The amount the last unidirectional computation sold.
TotalSold ==
    IF called.args[4] = 0 THEN called.args[3] * called.args[5]
    ELSE called.args[4] * called.args[5]

\* C16: for every successful unidirectional computation the returned
\* reserves satisfy newReserveIn >= reserveIn, newReserveOut <= reserveOut
\* and newReserveIn * newReserveOut <= reserveIn * reserveOut.
ConstantProductNonIncrease ==
    UnidirectionalOk =>
        /\ NewReserveIn >= ReserveIn
        /\ NewReserveOut <= ReserveOut
        /\ NewReserveIn * NewReserveOut <= ReserveIn * ReserveOut

\* The last call was calculate_virtual_amm_state with both rates zero and
\* positive reserves.
ZeroRateState ==
    /\ called.op = "calculate_virtual_amm_state"
    /\ called.args[3] = 0 /\ called.args[4] = 0
    /\ called.args[1] > 0 /\ called.args[2] > 0

\* The last call was calculate_virtual_trades with both rates zero, a
\* non-zero number of blocks and non-zero reserves.
ZeroRateTrade ==
    /\ called.op = "calculate_virtual_trades"
    /\ called.args[1] = 0 /\ called.args[2] = 0
    /\ called.args[3] > 0 /\ called.args[4] > 0 /\ called.args[5] > 0

\* The Result of a calculate_virtual_trades that trades nothing.
NoTrade == [ok |-> TRUE, err |-> NoErr, amount_0 |-> 0, amount_1 |-> 0]

\* C17, as stated: calculate_virtual_amm_state with both rates zero returns
\* the reserves it was given, for every number of blocks, and
\* calculate_virtual_trades with both rates zero and otherwise valid inputs
\* succeeds with amounts (0, 0).
NoOpLawAlways ==
    /\ ZeroRateState =>
           called.result = StateOk(called.args[1], called.args[2])
    /\ ZeroRateTrade => called.result = NoTrade

\* C17, amended: calculate_virtual_amm_state with both rates zero returns
\* the reserves it was given, for every number of blocks;
\* calculate_virtual_trades with both rates zero and otherwise valid inputs
\* succeeds with amounts (0, 0) when the contract is not in emergency mode,
\* and fails with "Contract in emergency mode" when it is.
NoOpLaw ==
    /\ ZeroRateState =>
           called.result = StateOk(called.args[1], called.args[2])
    /\ ZeroRateTrade =>
           IF calculator.emergency_mode
           THEN called.result = [ok |-> FALSE,
                                 err |-> "Contract in emergency mode",
                                 amount_0 |-> 0, amount_1 |-> 0]
           ELSE called.result = NoTrade

\* C17's case: calculate_virtual_trades has just succeeded with both rates
\* zero on an initialised contract, and was counted.
NoOpLawWitness ==
    /\ ZeroRateTrade
    /\ called.result = NoTrade
    /\ calculator.owner # ZeroAddress
    /\ calculator.total_calculations = 1

\* The last call was a unidirectional calculate_virtual_amm_state that
\* returned Ok on arguments validate_inputs accepts, and sold something.
ValidUnidirectionalOk ==
    /\ UnidirectionalOk
    /\ validate_inputs(called.args[3], called.args[4], called.args[5],
                       called.args[1], called.args[2]) = NoErr
    /\ TotalSold > 0

\* The last call was a unidirectional calculate_virtual_trades that
\* succeeded.
UnidirectionalTradeOk ==
    /\ called.op = "calculate_virtual_trades"
    /\ (called.args[1] = 0) # (called.args[2] = 0)
    /\ called.result.ok

\* The amount the last unidirectional calculate_virtual_trades reports as
\* sold, the amount it reports as bought, and the reserves of the two.
TradeSold ==
    IF called.args[2] = 0 THEN called.result.amount_0
    ELSE called.result.amount_1

TradeOutput ==
    IF called.args[2] = 0 THEN called.result.amount_1
    ELSE called.result.amount_0

TradeReserveIn ==
    IF called.args[2] = 0 THEN called.args[4] ELSE called.args[5]

TradeReserveOut ==
    IF called.args[2] = 0 THEN called.args[5] ELSE called.args[4]

\* C18: a valid unidirectional trade that sells totalSold > 0 puts out
\* strictly less than the linear estimate totalSold * reserveOut /
\* reserveIn, in the library (the output is the decrease of the reserve
\* bought from) and in the calculator, where the amount sold is
\* sell_rate * blocks_elapsed; the scenario of the claim, at a tenth of a
\* percent of its scale (reserves 1000, rate 10, 10 blocks), sells 100 and
\* puts out more than 0 and less than 100.
UnidirectionalOutputBelowLinear ==
    /\ ValidUnidirectionalOk =>
           (ReserveOut - NewReserveOut) * ReserveIn < TotalSold * ReserveOut
    /\ UnidirectionalTradeOk =>
           /\ TradeSold = (called.args[1] + called.args[2]) * called.args[3]
           /\ TradeOutput * TradeReserveIn < TradeSold * TradeReserveOut
    /\ (UnidirectionalTradeOk /\ called.args = <<10, 0, 10, 1000, 1000>>) =>
           /\ called.result.amount_0 = 100
           /\ called.result.amount_1 > 0
           /\ called.result.amount_1 < 100

\* The output of a constant-product trade of trade_size and its linear
\* estimate, in unbounded integers.
ConstantProductOut(trade_size, reserve_in, reserve_out) ==
    reserve_out - (reserve_in * reserve_out) \div (reserve_in + trade_size)

LinearEstimate(trade_size, reserve_in, reserve_out) ==
    (trade_size * reserve_out) \div reserve_in

\* The impact in basis points of an actual output below the expected one.
ImpactBps(expected, actual) ==
    IF expected <= actual THEN 0
    ELSE ((expected - actual) * 10000) \div expected

\* C19: every successful calculate_price_impact on non-zero reserves, of
\* the library and of the calculator, returns 0 when the constant-product
\* output is at least the linear estimate and otherwise
\* (expected - actual) * 10000 / expected, which is below 10000.
PriceImpactInBps ==
    /\ (called.op = "calculate_price_impact" /\ called.result.status = "ok") =>
           /\ called.result.value =
                  ImpactBps(LinearEstimate(called.args[1], called.args[2],
                                           called.args[3]),
                            ConstantProductOut(called.args[1], called.args[2],
                                               called.args[3]))
           /\ called.result.value < 10000
    /\ \A request \in ImpactRequests :
           (/\ request[2] > 0
            /\ request[3] > 0
            /\ calculator_calculate_price_impact(request[1], request[2],
                                                 request[3]).err = NoErr) =>
               /\ calculator_calculate_price_impact(
                      request[1], request[2], request[3]).value =
                      ImpactBps(LinearEstimate(request[1], request[2],
                                               request[3]),
                                ConstantProductOut(request[1], request[2],
                                                   request[3]))
               /\ calculator_calculate_price_impact(
                      request[1], request[2], request[3]).value < 10000

\* C20: calculate_execution_quality, of the library and of the calculator,
\* returns a score in [0, 100] for every expected amount, actual amount and
\* price impact; in the library the amount component and the impact
\* component are each at most 50.
QualityInRange ==
    /\ called.op = "calculate_execution_quality" =>
           /\ called.result >= 0
           /\ called.result <= 100
           /\ AmountRatio(called.args[1], called.args[2]) <= 50
           /\ ImpactScore(called.args[3]) <= 50
    /\ called.op = "calculator_calculate_execution_quality" =>
           /\ called.result >= 0
           /\ called.result <= 100

\* The last call was a calculate_optimal_rate that returned Ok.
OptimalRateOk ==
    /\ called.op = "calculate_optimal_rate"
    /\ called.result.status = "ok"

\* The uniform rate of the last calculate_optimal_rate, the target it
\* compares impacts with, and the impact it computes for a rate.
UniformRate == called.args[1] \div called.args[2]

TargetImpact ==
    (called.args[5] * OnePercent(called.args[6], called.args[7])) \div 100

RateImpact(rate) ==
    calculate_price_impact(rate, called.args[3], called.args[4],
                           called.args[6]).value

\* C21: calculate_optimal_rate fails when available_time = 0; when it
\* succeeds, the impact of the rate it returns does not exceed the target:
\* it returns the uniform rate when that rate's impact is within the
\* target, and otherwise the largest rate in [1, uniform rate] whose impact
\* is within the target.
OptimalRateWithinTarget ==
    /\ (called.op = "calculate_optimal_rate" /\ called.args[2] = 0) =>
           called.result.status = "err"
    /\ OptimalRateOk =>
           /\ RateImpact(called.result.value) <= TargetImpact
           /\ RateImpact(UniformRate) <= TargetImpact =>
                  called.result.value = UniformRate
           /\ RateImpact(UniformRate) > TargetImpact =>
                  /\ called.result.value \in 1..UniformRate
                  /\ \A rate \in (called.result.value + 1)..UniformRate :
                         RateImpact(rate) > TargetImpact

\* The last call was a validate_order_params.
ValidateCalled == called.op = "validate_order_params"

\* C22, as stated: validate_order_params accepts an order only if
\* sell_amount > 0, 10 <= duration_blocks <= 1,000,000 and sell_amount is at
\* most 10% of current_reserve; duration_blocks = 5 is rejected for every
\* amount and reserve, and an amount above 10% of the reserve is rejected
\* for every reserve.
ValidateOrderParamsCap ==
    ValidateCalled =>
        /\ called.result = NoErr =>
               /\ called.args[1] > 0
               /\ called.args[2] >= 10
               /\ called.args[2] <= 1000000
               /\ called.args[1] * 10 <= called.args[3]
        /\ called.args[2] = 5 => called.result # NoErr
        /\ called.args[1] * 10 > called.args[3] => called.result # NoErr

\* C22, amended: validate_order_params accepts an order exactly if
\* sell_amount > 0, 10 <= duration_blocks <= 1,000,000 and either
\* current_reserve = 0 or sell_amount is at most 10% of current_reserve;
\* duration_blocks = 5 is rejected for every amount and reserve, and an
\* amount above 10% of the reserve is rejected for every non-zero reserve.
ValidateOrderParamsAccepts ==
    ValidateCalled =>
        /\ called.result = NoErr <=>
               /\ called.args[1] > 0
               /\ called.args[2] >= 10
               /\ called.args[2] <= 1000000
               /\ \/ called.args[3] = 0
                  \/ called.args[1] * 10 <= called.args[3]
        /\ called.args[2] = 5 => called.result # NoErr
        /\ (called.args[3] > 0 /\ called.args[1] * 10 > called.args[3]) =>
               called.result # NoErr

\* C22's case: a call with duration_blocks = 5, an amount within a tenth of
\* a non-zero reserve, has just been rejected for its duration.
ValidateOrderParamsWitness ==
    /\ ValidateCalled
    /\ called.args = <<100, 5, 1000>>
    /\ called.result = "Duration too short (minimum 10 blocks)"

\* new_reserve_in of calculate_unidirectional_state computed with checked
\* operations: NONE when an intermediate does not fit or a divisor is zero.
FittingNewReserveIn(reserve_in, total_sell_amount, sqrt_k, one) ==
    IF CheckedDiv(CheckedMul(total_sell_amount, one), sqrt_k) = NONE
    THEN NONE
    ELSE IF CheckedDiv(CheckedMul(total_sell_amount, one), sqrt_k) < one
    THEN CheckedAdd(reserve_in,
             CheckedDiv(CheckedMul(total_sell_amount, reserve_in),
                        CheckedAdd(reserve_in, sqrt_k)))
    ELSE CheckedAdd(reserve_in,
                    CheckedDiv(CheckedMul(total_sell_amount, 8), 10))

\* Every intermediate of calculate_unidirectional_state fits the width and
\* no divisor is zero.
UnidirectionalFits(reserve_in, reserve_out, sell_rate, time_blocks, precision) ==
    /\ sell_rate # NONE
    /\ CheckedMul(reserve_in, reserve_out) # NONE
    /\ CheckedMul(sell_rate, time_blocks) # NONE
    /\ sqrt(reserve_in * reserve_out) # NONE
    /\ CheckedDiv(reserve_in * reserve_out,
                  FittingNewReserveIn(reserve_in, sell_rate * time_blocks,
                                      sqrt(reserve_in * reserve_out),
                                      PowerOfTen(precision))) # NONE

\* The intermediates of calculate_bidirectional_state from the value of
\* the token-x volume on fit, and so do those of the unidirectional
\* computation it ends with.
BidirectionalNetFits(initial_x, initial_y, time_blocks, precision, total_sell_x, total_sell_y, price_x_in_y, sell_x_value_in_y) ==
    /\ price_x_in_y # NONE
    /\ sell_x_value_in_y # NONE
    /\ sell_x_value_in_y > total_sell_y =>
           UnidirectionalFits(
               initial_x, initial_y,
               CheckedDiv(
                   CheckedSub(total_sell_x,
                       CheckedDiv(CheckedMul(total_sell_y,
                                             PowerOfTen(precision)),
                                  price_x_in_y)),
                   time_blocks),
               time_blocks, precision)
    /\ total_sell_y > sell_x_value_in_y =>
           UnidirectionalFits(
               initial_y, initial_x,
               CheckedDiv(CheckedSub(total_sell_y, sell_x_value_in_y),
                          time_blocks),
               time_blocks, precision)

\* Every intermediate of calculate_bidirectional_state fits the width and
\* no divisor is zero.
BidirectionalFits(initial_x, initial_y, sell_rate_x, sell_rate_y, time_blocks, precision) ==
    /\ CheckedMul(sell_rate_x, time_blocks) # NONE
    /\ CheckedMul(sell_rate_y, time_blocks) # NONE
    /\ BidirectionalNetFits(
           initial_x, initial_y, time_blocks, precision,
           sell_rate_x * time_blocks, sell_rate_y * time_blocks,
           CheckedDiv(CheckedMul(initial_y, PowerOfTen(precision)),
                      initial_x),
           CheckedDiv(
               CheckedMul(sell_rate_x * time_blocks,
                   CheckedDiv(CheckedMul(initial_y, PowerOfTen(precision)),
                              initial_x)),
               PowerOfTen(precision)))

\* C23: a calculate_virtual_amm_state in which an intermediate of the
\* unidirectional or of the bidirectional path does not fit the width, or a
\* divisor is zero, does not return Ok: it never returns reserves computed
\* from a wrapped intermediate.
CheckedEngineArithmetic ==
    (called.op = "calculate_virtual_amm_state"
         /\ called.result.status = "ok") =>
        /\ (called.args[3] > 0 /\ called.args[4] = 0) =>
               UnidirectionalFits(called.args[1], called.args[2],
                                  called.args[3], called.args[5],
                                  called.args[6])
        /\ (called.args[4] > 0 /\ called.args[3] = 0) =>
               UnidirectionalFits(called.args[2], called.args[1],
                                  called.args[4], called.args[5],
                                  called.args[6])
        /\ (called.args[3] > 0 /\ called.args[4] > 0) =>
               BidirectionalFits(called.args[1], called.args[2],
                                 called.args[3], called.args[4],
                                 called.args[5], called.args[6])

\* What a caller sees of calculate_virtual_trades on calculator c.
TradeOutcome(c, request) ==
    TradesCalled(request,
                 calculate_virtual_trades(c, request[1], request[2],
                                          request[3], request[4],
                                          request[5])).result

\* The calculator c after a different history of calculations: the same
\* configuration with other statistics counters.
WithStatistics(c, calculations, volume) ==
    [c EXCEPT !.total_calculations = calculations,
              !.total_volume_processed = volume]

\* C24: two calculator instances in the same configuration return the same
\* result from calculate_virtual_trades on the same arguments, whatever the
\* number of calculations and the volume each has counted before.
Determinism ==
    \A request \in TradeRequests, calculations \in {0, 1, UMax}, volume \in {0, 174, UMax} :
        TradeOutcome(calculator, request)
            = TradeOutcome(WithStatistics(calculator, calculations, volume),
                           request)

\* C24's case: an instance that has counted a calculation with a non-zero
\* volume, on which the same call succeeds again with non-zero amounts.
DeterminismWitness ==
    /\ calculator.total_calculations = 1
    /\ calculator.total_volume_processed > 0
    /\ called.op = "calculate_virtual_trades"
    /\ called.result.ok
    /\ called.result.amount_1 > 0
    /\ TradeOutcome(calculator, called.args) = called.result

\* The arguments pass validate_inputs and exactly one sell rate is
\* non-zero.
ValidUnidirectionalRequest(request) ==
    /\ request[3] > 0
    /\ request[4] > 0
    /\ request[5] > 0
    /\ request[1] <= Max(request[4], request[5]) \div 100
    /\ request[2] <= Max(request[4], request[5]) \div 100
    /\ (request[1] = 0) # (request[2] = 0)

\* C25: on a calculator in any reachable state that is not in emergency
\* mode, freshly constructed and reconfigured ones included,
\* calculate_virtual_trades succeeds on valid arguments with exactly one
\* non-zero sell rate, and a success increases total_calculations by
\* exactly 1.
ValidTradesSucceed ==
    \A request \in TradeRequests :
        (~calculator.emergency_mode /\ ValidUnidirectionalRequest(request)) =>
            /\ calculate_virtual_trades(calculator, request[1], request[2],
                                        request[3], request[4],
                                        request[5]).ok
            /\ calculate_virtual_trades(calculator, request[1], request[2],
                                        request[3], request[4],
                                        request[5]).calculator
                   .total_calculations
                   = calculator.total_calculations + 1

\* The order's [start_block, end_block) overlaps the window
\* [start_block, end_block).
Overlaps(order, start_block, end_block) ==
    /\ order.order_type = "LongTerm"
    /\ order.end_block > start_block
    /\ order.start_block < end_block

RECURSIVE SumOfOverlapping(_, _, _, _, _)
\* The sum of sell_rate over the orders of os from position i on that sell
\* in the direction and overlap the window.
SumOfOverlapping(os, direction, start_block, end_block, i) ==
    IF i > Len(os) THEN 0
    ELSE (IF os[i].direction = direction
             /\ Overlaps(os[i], start_block, end_block)
          THEN os[i].sell_rate ELSE 0)
         + SumOfOverlapping(os, direction, start_block, end_block, i + 1)

\* C26: in a catch-up over the window [last, current), the rate of each
\* direction handed to the engine is the sum of sell_rate over exactly the
\* long-term orders of the pool that sell in that direction and whose
\* [start_block, end_block) overlaps the window.
ActiveRatesOverWindow ==
    \A current_block \in Blocks :
        (/\ current_block > virtual_order_state.last_virtual_order_block
         /\ get_active_sell_rates(
                Pool, virtual_order_state.last_virtual_order_block,
                current_block).err = NoErr) =>
            /\ get_active_sell_rates(
                   Pool, virtual_order_state.last_virtual_order_block,
                   current_block).rate_0
                   = SumOfOverlapping(
                         orders, "SellToken0",
                         virtual_order_state.last_virtual_order_block,
                         current_block, 1)
            /\ get_active_sell_rates(
                   Pool, virtual_order_state.last_virtual_order_block,
                   current_block).rate_1
                   = SumOfOverlapping(
                         orders, "SellToken1",
                         virtual_order_state.last_virtual_order_block,
                         current_block, 1)

\* C26's case: after a catch-up, the pool holds an order that overlaps the
\* window of the next one and an order that does not, and the rates of the
\* window are computed and not both zero.
ActiveRatesOverWindowWitness ==
    /\ virtual_order_state.last_virtual_order_block > 0
    /\ \E current_block \in Blocks :
           /\ current_block > virtual_order_state.last_virtual_order_block
           /\ get_active_sell_rates(
                  Pool, virtual_order_state.last_virtual_order_block,
                  current_block).err = NoErr
           /\ get_active_sell_rates(
                  Pool, virtual_order_state.last_virtual_order_block,
                  current_block).rate_0 > 0
           /\ \E i, j \in 1..Len(orders) :
                  /\ Overlaps(orders[i],
                              virtual_order_state.last_virtual_order_block,
                              current_block)
                  /\ ~Overlaps(orders[j],
                               virtual_order_state.last_virtual_order_block,
                               current_block)


\* C27: in a successful catch-up the amounts added to accumulated_out of
\* the orders selling token0 sum to at most amount_1_received and those of
\* the orders selling token1 to at most amount_0_received, and an order is
\* credited nothing when its direction's aggregate rate is zero.
NoOverDistribution ==
    \A current_block \in Blocks, reserves \in ReservePairs :
        LET r == execute_virtual_orders(Pool, current_block,
                                        reserves[1], reserves[2])
        IN  r.ok =>
              /\ r.credit_0 <= r.ret.amount_1_received
              /\ r.credit_1 <= r.ret.amount_0_received
              /\ total_sell_rate_0 = 0 => r.credit_0 = 0
              /\ total_sell_rate_1 = 0 => r.credit_1 = 0


\* The number of blocks of the window [last_block, current_block) that lie
\* in the order's [start_block, end_block).
ActiveBlocks(order, last_block, current_block) ==
    Max(0, Min(current_block, order.end_block)
               - Max(last_block, order.start_block))

\* amount <= sell_rate * blocks, without forming the product.
WithinRate(amount, sell_rate, blocks) ==
    IF sell_rate = 0 THEN amount = 0
    ELSE (amount + sell_rate - 1) \div sell_rate <= blocks

\* What the successful catch-up r at current_block did to the order at
\* index i of the pool: the outcome of the update loop's body on it.
UpdateOf(i, r, current_block) ==
    UpdateOrder(orders[i], total_sell_rate_0, total_sell_rate_1,
                current_block - virtual_order_state.last_virtual_order_block,
                r.ret.amount_0_received, r.ret.amount_1_received,
                current_block)

\* The order at index i is charged by u at most for its active blocks of
\* the window, and neither charged nor credited when it has not started.
ChargedWhileActive(i, u, current_block) ==
    /\ WithinRate(orders[i].remaining_amount - u.order.remaining_amount,
                  orders[i].sell_rate,
                  ActiveBlocks(orders[i],
                               virtual_order_state.last_virtual_order_block,
                               current_block))
    /\ orders[i].start_block >= current_block =>
           /\ u.order.remaining_amount = orders[i].remaining_amount
           /\ u.received = 0

\* C28: in a successful catch-up over [last, current) the decrease of an
\* order's remaining_amount is at most sell_rate times the number of blocks
\* of the window that lie in [start_block, end_block), and an order whose
\* start_block >= current is neither charged nor credited.
ChargedOnlyWhenActive ==
    \A current_block \in Blocks, reserves \in ReservePairs :
        LET r == execute_virtual_orders(Pool, current_block,
                                        reserves[1], reserves[2])
        IN  (r.ok /\ current_block
                         > virtual_order_state.last_virtual_order_block) =>
              \A i \in r.updated :
                  ChargedWhileActive(i, UpdateOf(i, r, current_block),
                                     current_block)


RECURSIVE SumOfCharges(_, _, _, _, _)
\* The total decrease of remaining_amount, in the successful catch-up r at
\* current_block, over the orders from index i on that sell in the
\* direction; an order the update loop did not reach keeps its amount.
SumOfCharges(direction, r, current_block, updated, i) ==
    IF i > Len(orders) THEN 0
    ELSE (IF i \in updated /\ orders[i].direction = direction
          THEN orders[i].remaining_amount
                   - UpdateOf(i, r, current_block).order.remaining_amount
          ELSE 0)
         + SumOfCharges(direction, r, current_block, updated, i + 1)

\* C29: in a successful catch-up the reported amount_0_sold is the total
\* decrease of remaining_amount over the orders selling token0 during the
\* call, and amount_1_sold the total decrease over the orders selling
\* token1.
SoldAmountsAccounted ==
    \A current_block \in Blocks, reserves \in ReservePairs :
        LET r == execute_virtual_orders(Pool, current_block,
                                        reserves[1], reserves[2])
        IN  r.ok =>
              /\ r.ret.amount_0_sold
                     = SumOfCharges("SellToken0", r, current_block,
                                    r.updated, 1)
              /\ r.ret.amount_1_sold
                     = SumOfCharges("SellToken1", r, current_block,
                                    r.updated, 1)


\* A successful catch-up of the keeper leaves no order in the pool whose
\* end_block is at or below its current_block.
RemovedByDeadline ==
    [][keeper_block' # keeper_block =>
           \A i \in 1..Len(orders') :
               orders'[i].end_block > keeper_block']_vars

\* The aggregate after the removals by a catch-up: the rates of the orders
\* removed taken out of the aggregate before, and zero if that held less.
RatesTakenOut(total_before, total_after, direction) ==
    total_after
        = Max(0, total_before - (SumOfRates(orders, direction, 1)
                                 - SumOfRates(orders', direction, 1)))

\* A successful catch-up of the keeper takes the rates of the orders it
\* removes out of the aggregates.
RemovedFromAggregate ==
    [][keeper_block' # keeper_block =>
           /\ RatesTakenOut(total_sell_rate_0, total_sell_rate_0',
                            "SellToken0")
           /\ RatesTakenOut(total_sell_rate_1, total_sell_rate_1',
                            "SellToken1")]_vars

\* C30: when the keeper keeps executing catch-ups successfully with ever
\* larger current_block, every order in the pool is removed at the latest by
\* the first successful catch-up with current_block >= its end_block, and so
\* eventually, the blocks growing past every end_block; the sell_rate of an
\* order removed is taken out of the aggregate rate.
EventualRemoval ==
    /\ RemovedByDeadline
    /\ RemovedFromAggregate

=============================================================================
